---- MODULE Spec2Model ----
(***************************************************************************)
(* OAuth gateway of the QBO MCP server: the request interceptor            *)
(* (MCPHttpOAuthWrapper.__call__, src/main.py), the bearer-token verifier  *)
(* (verify_bearer_token, src/app/oauth_verify.py) and the per-request      *)
(* identity channel (current_user, src/app/request_context.py).            *)
(*                                                                         *)
(* Strings are sequences of atoms: "/" is the path separator, every other  *)
(* atom stands for a piece of text that does not end in a separator.        *)
(***************************************************************************)
EXTENDS Integers, Sequences, FiniteSets, TLC

\* ------------------------------------------------------------------ bounds
\* Number of requests handled concurrently by the one process.
NReq == 2
\* Number of concurrent callers of the credential code.
NCall == 2
\* Token sets the upstream authorization server issues in one behaviour.
MaxIssued == 2
\* The clock stops advancing at this many seconds.
MaxTime == 30
\* Most trailing separators carried by a URL of the input sets.
MaxSlash == 2
\* Most messages a request body is delivered in.
MaxChunks == 2
\* Receive calls are counted up to this number, then from zero again; downstream
\* takes this many messages in one behaviour.
MaxRecv == 4

\* Python's None where a string is expected: a reserved value no input string equals.
None == <<"<None>">>
\* A value that is not a string (a number in a JSON document), likewise reserved.
NonStr == <<"<7>">>
Reqs == 1..NReq

\* ----------------------------------------------------------------- strings
RECURSIVE Slashes(_)
Slashes(n) == IF n = 0 THEN << >> ELSE <<"/">> \o Slashes(n - 1)

\* str.rstrip("/"): drops every trailing separator.
RECURSIVE RStrip(_)
RStrip(s) ==
    IF Len(s) > 0 /\ s[Len(s)] = "/" THEN RStrip(SubSeq(s, 1, Len(s) - 1)) ELSE s

\* Drops one trailing separator, if there is one.
StripOne(s) ==
    IF Len(s) > 0 /\ s[Len(s)] = "/" THEN SubSeq(s, 1, Len(s) - 1) ELSE s

StartsWith(s, p) == Len(s) >= Len(p) /\ SubSeq(s, 1, Len(p)) = p

\* Python truthiness of an optional string: None and "" are falsy.
Truthy(v) == v # None /\ v # << >>

\* Python's `a or b` on optional strings.
Or(a, b) == IF Truthy(a) THEN a ELSE b

\* isinstance(v, str)
IsStr(v) == v \notin {None, NonStr}

\* f"{proto}://{host}"
Origin(proto, host) == proto \o <<"://">> \o host

\* The tool-invocation suffix and the URLs of the input sets.
McpSuffix == <<"/", "mcp">>
HostH == Origin(<<"https">>, <<"h">>)
HostG == Origin(<<"https">>, <<"g">>)
Stems == {HostH, HostG}
Urls == {st \o McpSuffix \o Slashes(n) : st \in Stems, n \in 0..MaxSlash}

\* ------------------------------------------------------------ configuration
\* os.environ as read by main.py and oauth_verify.py.
\*   allow_public : ALLOW_PUBLIC_DISCOVERY in {"1","true","yes"} (default "1")
\*   issuer       : OAUTH_ISSUER_DOMAIN is set (ISSUER is not None)
\*   resource     : OAUTH_RESOURCE
\*   audience     : OAUTH_AUDIENCE
\*   base         : PUBLIC_BASE_URL or BASE_URL or RENDER_EXTERNAL_URL
\*   scopes       : OAUTH_SCOPES split into its entries (_supported_scopes)
ISSUER(e) == IF e.issuer THEN <<"iss", "/">> ELSE None

DEFAULT_AUDIENCE(e) == Or(e.audience, e.resource)

\* ------------------------------------------------------------------ tokens
\* A bearer credential as the verifier sees it:
\*   dots   : token.count(".")
\*   hdr    : jwt.get_unverified_header accepts the first segment
\*   kid    : the header's key id (None when the header has none)
\*   sig    : the signature verifies under the selected key and ALGORITHMS
\*   iss    : the iss claim equals ISSUER
\*   fresh  : the registered time claims pass jwt.decode's default checks
\*   claims : the payload (sub, email, aud); aud is [list, items]: a JSON list
\*            of entries, or one value (items of length 1; <<None>> when absent)
Kids == {"k1", "k2", "k3"}

\* A key-discovery document as returned by r.json(): hasKeys is whether the
\* object carries a "keys" member at all (an empty object is falsy).
JwksDocs == {[hasKeys |-> FALSE, keys |-> {}]} \cup
            {[hasKeys |-> TRUE, keys |-> K] : K \in {{}, {"k1"}, {"k1", "k2"}}}

\* _jwks_cache before the first fetch.
NoJwks == [absent |-> TRUE]

\* `if _jwks_cache:`
DocTruthy(d) == "hasKeys" \in DOMAIN d /\ d.hasKeys

\* Authorization header: absent, or scheme and credential.
NoAuth == [present |-> FALSE]

Lower(scheme) ==
    CASE scheme \in {"Bearer", "bearer", "BEARER"} -> "bearer"
      [] scheme \in {"Basic", "basic"} -> "basic"
      [] OTHER -> scheme

\* not auth_header or not auth_header.lower().startswith("bearer ")
HasBearer(auth) == auth.present /\ Lower(auth.scheme) = "bearer"

\* -------------------------------------------------------------- verifier
Ok(c) == [kind |-> "ok", claims |-> c]
Rejected(why) == [kind |-> "rejected", reason |-> why]
Failed(what) == [kind |-> "error", what |-> what]
NeedJwks == [kind |-> "need_jwks"]

\* The message each PermissionError of verify_bearer_token carries, up to the
\* interpolated parts: the decoder's message `e`, the audiences of the mismatch.
ReasonText(why) ==
    CASE why = "missing_header" -> <<"Missing Bearer token">>
      [] why = "malformed_token" -> <<"Access token does not look like a signed JWT">>
      [] why = "not_a_jwt" -> <<"Access token is not a JWT">>
      [] why = "unknown_kid" -> <<"Invalid token: ", "unknown key id (kid)">>
      [] why = "invalid_token" -> <<"Invalid token: ", "e">>
      [] why = "audience_mismatch" -> <<"Invalid token audience. Expected ", "expected_audience">>

\* The raise PermissionError sites of verify_bearer_token.
Reasons ==
    {"missing_header", "malformed_token", "not_a_jwt", "unknown_kid", "invalid_token",
     "audience_mismatch"}

norm_url_one(u) == StripOne(u)

norm_url_id(u) == u

\* _norm_url
norm_url(u) == RStrip(u)

\* aud_list = token_aud if isinstance(token_aud, list) else [token_aud]
AudList(token_aud) ==
    IF token_aud.list THEN token_aud.items ELSE <<token_aud.items[1]>>

\* aud_norms = {_norm_url(a) for a in aud_list if isinstance(a, str)}
AudNorms(token_aud) ==
    LET l == AudList(token_aud)
    IN {norm_url(l[i]) : i \in {j \in 1..Len(l) : IsStr(l[j])}}

\* _norm_url(expected_audience) in aud_norms
AudienceMatches(expected, token_aud) == norm_url(expected) \in AudNorms(token_aud)

\* verify_bearer_token up to the call of _get_jwks: the checks that need neither
\* the key set nor the network.
VerifyHeadNoShapeCheck(auth, audience, e) ==
    LET expected == Or(audience, DEFAULT_AUDIENCE(e))
    IN IF ~Truthy(expected) THEN Failed("no_audience")
       ELSE IF ~HasBearer(auth) THEN Rejected("missing_header")
       ELSE NeedJwks

VerifyHead(auth, audience, e) ==
    LET expected == Or(audience, DEFAULT_AUDIENCE(e))
    IN IF ~Truthy(expected) THEN Failed("no_audience")
       ELSE IF ~HasBearer(auth) THEN Rejected("missing_header")
       ELSE IF auth.token.dots # 2 THEN Rejected("malformed_token")
       ELSE NeedJwks

\* jwt.decode(token, key, algorithms, issuer, options={"verify_aud": False}):
\* signature, issuer and the registered claims are validated, audience is not.
JwtDecodeOk(t) == t.sig /\ t.iss /\ t.fresh

\* verify_bearer_token after _get_jwks returned `jwks`.
VerifyTail(auth, audience, e, jwks) ==
    LET t == auth.token
        expected == Or(audience, DEFAULT_AUDIENCE(e))
    IN IF ~t.hdr THEN Rejected("not_a_jwt")
       ELSE IF t.kid \notin jwks.keys THEN Rejected("unknown_kid")
       ELSE IF ~JwtDecodeOk(t) THEN Rejected("invalid_token")
       ELSE IF ~AudienceMatches(expected, t.claims.aud)
            THEN Rejected("audience_mismatch")
       ELSE Ok(t.claims)

\* ------------------------------------------------------------- input sets
Aud1(a) == [list |-> FALSE, items |-> <<a>>]
AudL(l) == [list |-> TRUE, items |-> l]
ListEntries == {HostH \o McpSuffix \o <<"/">>, HostG \o McpSuffix, NonStr}
AudValues ==
    {Aud1(a) : a \in Urls \cup {None, NonStr}} \cup
    {AudL(<< >>)} \cup {AudL(<<a>>) : a \in ListEntries} \cup
    {AudL(<<a, b>>) : a \in ListEntries, b \in ListEntries}

Token(dots, hdr, kid, sig, iss, fresh, claims) ==
    [dots |-> dots, hdr |-> hdr, kid |-> kid, sig |-> sig, iss |-> iss,
     fresh |-> fresh, claims |-> claims]

Claims(sub, email, a) == [sub |-> sub, email |-> email, aud |-> a]

\* Credentials that are no signed token: opaque strings and five-segment JWE.
MalformedTokens ==
    {Token(d, FALSE, "k1", FALSE, FALSE, FALSE, Claims("u1", "e1", Aud1(None))) :
        d \in {0, 1, 3, 4}}

\* Three-segment credentials, every combination of defects, every audience.
\* A signature can only verify on a token whose header parses.
ShapedTokens ==
    {t \in {Token(2, hdr, kid, sig, iss, fresh, Claims("u1", "e1", a)) :
                hdr \in BOOLEAN, kid \in {"k1", "k3"}, sig \in BOOLEAN,
                iss \in BOOLEAN, fresh \in BOOLEAN, a \in AudValues} :
        t.sig => t.hdr}

GoodToken(sub, email, a) == Token(2, TRUE, "k1", TRUE, TRUE, TRUE, Claims(sub, email, a))

Bearer(t) == [present |-> TRUE, scheme |-> "Bearer", token |-> t]

VerifyAuths ==
    {NoAuth} \cup
    {[present |-> TRUE, scheme |-> sc, token |-> GoodToken("u1", "e1", Aud1(HostH \o McpSuffix))] :
        sc \in {"Basic", "bearer"}} \cup
    {Bearer(t) : t \in MalformedTokens \cup ShapedTokens}

\* The audience argument of a direct call of verify_bearer_token.
VerifyAudiences == {None, << >>} \cup {HostH \o McpSuffix \o Slashes(n) : n \in 0..MaxSlash}

DefaultScopes == <<"openid", "profile", "email", "offline_access">>

VerifyEnvs ==
    {[allow_public |-> TRUE, issuer |-> i, resource |-> None, audience |-> a,
      base |-> None, scopes |-> DefaultScopes] :
        i \in BOOLEAN, a \in {None, HostG \o McpSuffix}}

\* --------------------------------------------------- credentials: values
\* Callers of the credential code: tool calls, connect callbacks, disconnects.
Callers == 1..NCall

\* (user_id, realm_id): the primary key of qbo_connections.
Keys == {<<"u1", "r1">>, <<"u1", "r2">>}

\* A nullable column or an omitted response field holding no value.
Null == [null |-> TRUE]

\* A datetime: seconds on the UTC time line, and whether it carries tzinfo.
DateTime(t, tz) == [t |-> t, tz |-> tz]

\* datetime.now(timezone.utc) at time `now`.
UtcNow(now) == DateTime(now, TRUE)

\* A DateTime column of the SQLite store: the value is bound as its wall-clock
\* text without an offset and read back as a naive datetime.
ToColumn(d) == IF d = Null THEN Null ELSE DateTime(d.t, FALSE)

\* `a <= b` on datetimes: TypeError when exactly one of them is naive.
DateTimeLe(a, b) ==
    IF a.tz # b.tz THEN "TypeError" ELSE IF a.t <= b.t THEN "yes" ELSE "no"

\* Clear tokens as the upstream authorization server issues them.
AccessToken(n) == [tok |-> "access", n |-> n]
RefreshToken(n) == [tok |-> "refresh", n |-> n]

\* FERNET_KEY of the running process, and the key of an earlier deployment.
FernetKey == "key2"
OldFernetKey == "key1"

EncryptNothing(value) == value

\* encrypt: the ciphertext of `value` under the process key.
Encrypt(value) == [cipher |-> value, key |-> FernetKey]

\* decrypt: the clear value, or InvalidToken for a ciphertext of another key.
Decrypt(c) ==
    IF c.key = FernetKey THEN [ok |-> TRUE, value |-> c.cipher] ELSE [ok |-> FALSE]

\* A row of qbo_connections, and the absence of one.
NoRow == [norow |-> TRUE]
Row(name, access_enc, refresh_enc, expires_at, updated_at) ==
    [company_name |-> name, access_token_enc |-> access_enc,
     refresh_token_enc |-> refresh_enc, access_token_expires_at |-> expires_at,
     updated_at |-> updated_at]

\* timedelta(seconds=30), the refresh margin.
SafetyMargin == 30

\* int(token_resp.get("expires_in", 3600))
DefaultLifetime == 3600
Lifetime(token_resp) ==
    IF token_resp.expires_in = Null THEN DefaultLifetime ELSE token_resp.expires_in.seconds

\* (not access_token) or (not exp) or (exp <= now + 30 s), evaluated left to right.
NeedsRefresh(access_token, exp, now) ==
    IF access_token = Null THEN "yes"
    ELSE IF exp = Null THEN "yes"
    ELSE DateTimeLe(exp, DateTime(now + SafetyMargin, TRUE))

\* The outcome of a call: nothing yet, a returned value, a raised exception.
NoOutcome == [kind |-> "none"]
Returns(v) == [kind |-> "ok", value |-> v]
Raises(what) == [kind |-> "error", what |-> what]

\* The local variables of a caller that is not in a call.
NoCall ==
    [op |-> "none", key |-> <<"", "">>, conn |-> NoRow, refresh_token |-> Null,
     token_resp |-> Null, lookup |-> Null, args |-> Null, pend |-> Null, exchanges |-> 0, writes |-> 0,
     checked_at |-> 0, exchanged_at |-> 0, outcome |-> NoOutcome]

\* What is recorded about the writes of a key: who created the row, the row
\* before the last commit, the last commit, and whether a disconnect has
\* completed with no authorization-code exchange since.
NoHistory ==
    [created_by |-> "none", before |-> NoRow, commit |-> Null, disconnected |-> FALSE]

\* ------------------------------------------------------- transport: values
\* ASGI receive messages.
HttpRequest(body, more) == [type |-> "http.request", body |-> body, more_body |-> more]
HttpDisconnect == [type |-> "http.disconnect"]

ConcatLast(chunks) == IF Len(chunks) = 0 THEN << >> ELSE chunks[Len(chunks)]

\* b"".join(chunks)
RECURSIVE Concat(_)
Concat(chunks) == IF Len(chunks) = 0 THEN << >> ELSE Head(chunks) \o Concat(Tail(chunks))

\* A fresh _BodyBuffer: _body and _queue are None, and body() has no chunks.
NoBuffer == [body |-> Null, queue |-> Null, chunks |-> << >>]

\* A transport with nothing to deliver.
NoTransport == [sent |-> Null, wire |-> << >>, pos |-> 0, calls |-> 0]

\* await receive() on the transport: the next message of the wire; once the
\* wire is used up the client has gone and every call gives http.disconnect.
Receive(t) == IF t.pos < Len(t.wire) THEN t.wire[t.pos + 1] ELSE HttpDisconnect
Received(t) ==
    [t EXCEPT !.pos = IF @ < Len(t.wire) THEN @ + 1 ELSE @,
              !.calls = (@ + 1) % (MaxRecv + 1)]

\* ------------------------------------------------------------------- state
VARIABLES
    env,         \* the process configuration
    jwks_cache,  \* oauth_verify._jwks_cache
    pc,          \* where each request's handling stands
    req,         \* each request as it arrived
    aud,         \* the audience argument passed to verify_bearer_token
    vres,        \* what verify_bearer_token returned or raised
    net,         \* key-set fetches (network calls) made on behalf of each request
    decision,    \* the interceptor's classification of each request
    buf,         \* _BodyBuffer._body of each request
    down,        \* what downstream handling of each request was given and saw
    resp,        \* the responses the interceptor itself sent for each request
    ctx,         \* the value of current_user in each execution context
    saved,       \* the token of current_user.set: the value to reset to
    errs,        \* exceptions other than rejections raised while handling
    transport,   \* the receive channel of each request: what it delivers, how far
    body_buf,    \* the _BodyBuffer of each request
    received,    \* the messages downstream handling got from its receive channel
    store,       \* the rows of qbo_connections, by key
    clock,       \* the current time, in seconds
    cpc,         \* where each caller of the credential code stands
    call,        \* the local variables of each caller's call
    issued,      \* how many token sets the upstream server has issued
    hist         \* what is recorded about the writes of each key

vars ==
    <<env, jwks_cache, pc, req, aud, vres, net, decision, buf, down, resp, ctx, saved, errs,
      transport, body_buf, received, store, clock, cpc, call, issued, hist>>
credentials == <<store, clock, cpc, call, issued, hist>>
gateway == <<decision, buf, down, resp, ctx, saved, errs>>
stream == <<transport, body_buf, received>>

NoResult == [kind |-> "none"]
NoReq == [absent |-> TRUE]
NoBody == [kind |-> "unread"]
NoUser == [anon |-> TRUE]
NoDown == [n |-> 0, via |-> "none", got |-> NoBody, seen |-> NoUser, read |-> FALSE]

\* No credential stored, no caller at work.
CredentialsIdle ==
    /\ store = [k \in Keys |-> NoRow]
    /\ clock = 0
    /\ cpc = [c \in Callers |-> "idle"]
    /\ call = [c \in Callers |-> NoCall]
    /\ issued = 0
    /\ hist = [k \in Keys |-> NoHistory]

StreamIdle == transport = [r \in Reqs |-> NoTransport]

GatewayIdle ==
    /\ decision = [r \in Reqs |-> "none"]
    /\ buf = [r \in Reqs |-> NoBody]
    /\ down = [r \in Reqs |-> NoDown]
    /\ resp = [r \in Reqs |-> << >>]
    /\ ctx = [c \in Reqs |-> NoUser]
    /\ saved = [r \in Reqs |-> NoUser]
    /\ errs = [r \in Reqs |-> << >>]
    /\ body_buf = [r \in Reqs |-> NoBuffer]
    /\ received = [r \in Reqs |-> << >>]

\* ------------------------------------------------------- verifier, stepwise
\* _get_jwks up to its await, then the rest of verify_bearer_token when the
\* cache answers: the call runs without suspending unless a fetch is needed.
VerifyCall(r) ==
    /\ pc[r] = "v_call"
    /\ LET h == VerifyHead(req[r].auth, aud[r], env)
       IN IF h.kind # "need_jwks"
          THEN /\ vres' = [vres EXCEPT ![r] = h]
               /\ pc' = [pc EXCEPT ![r] = "v_ret"]
               /\ UNCHANGED net
          ELSE IF DocTruthy(jwks_cache)
          THEN /\ vres' = [vres EXCEPT ![r] = VerifyTail(req[r].auth, aud[r], env, jwks_cache)]
               /\ pc' = [pc EXCEPT ![r] = "v_ret"]
               /\ UNCHANGED net
          ELSE IF ISSUER(env) = None
          THEN /\ vres' = [vres EXCEPT ![r] = Failed("no_issuer")]
               /\ pc' = [pc EXCEPT ![r] = "v_ret"]
               /\ UNCHANGED net
          ELSE /\ pc' = [pc EXCEPT ![r] = "v_fetch"]
               /\ net' = [net EXCEPT ![r] = @ + 1]
               /\ UNCHANGED vres
    /\ UNCHANGED <<env, jwks_cache, req, aud, gateway, credentials, stream>>

\* The key-set response arrives: _jwks_cache = r.json(), and verification goes on.
FetchOk(r) ==
    /\ pc[r] = "v_fetch"
    /\ \E doc \in JwksDocs :
          /\ jwks_cache' = doc
          /\ vres' = [vres EXCEPT ![r] = VerifyTail(req[r].auth, aud[r], env, doc)]
    /\ pc' = [pc EXCEPT ![r] = "v_ret"]
    /\ UNCHANGED <<env, req, aud, net, gateway, credentials, stream>>

\* The fetch times out, cannot connect or raise_for_status raises.
FetchFails(r) ==
    /\ pc[r] = "v_fetch"
    /\ vres' = [vres EXCEPT ![r] = Failed("fetch_failed")]
    /\ pc' = [pc EXCEPT ![r] = "v_ret"]
    /\ UNCHANGED <<env, jwks_cache, req, aud, net, gateway, credentials, stream>>

\* Direct calls of verify_bearer_token: one call, inputs drawn from the input
\* sets, the cache as earlier calls may have left it.
InitVerify ==
    /\ env \in VerifyEnvs
    /\ jwks_cache \in {NoJwks} \cup JwksDocs
    /\ jwks_cache # NoJwks => env.issuer
    /\ \E a \in VerifyAuths : req = [r \in Reqs |-> IF r = 1 THEN [auth |-> a] ELSE NoReq]
    /\ \E x \in VerifyAudiences : aud = [r \in Reqs |-> IF r = 1 THEN x ELSE None]
    /\ pc = [r \in Reqs |-> IF r = 1 THEN "v_call" ELSE "idle"]
    /\ vres = [r \in Reqs |-> NoResult]
    /\ net = [r \in Reqs |-> 0]
    /\ GatewayIdle
    /\ StreamIdle
    /\ CredentialsIdle

NextVerify == VerifyCall(1) \/ FetchOk(1) \/ FetchFails(1)

SpecVerify == InitVerify /\ [][NextVerify]_vars

\* ------------------------------------------------------------ interceptor
P_mcp == <<"/", "mcp">>
P_sse == <<"/", "sse">>

\* path = (scope.get("path") or "").rstrip("/")
Path(rq) == RStrip(rq.path)

\* The two transport endpoints OAuth is enforced for.
Protected(path) ==
    \/ path = P_mcp \/ StartsWith(path, P_mcp \o <<"/">>)
    \/ path = P_sse \/ StartsWith(path, P_sse \o <<"/">>)

IsSse(path) == path = P_sse \/ StartsWith(path, P_sse \o <<"/">>)

DiscoveryCandidateNoToggle(e, rq) == ~HasBearer(rq.auth) /\ StartsWith(Path(rq), P_mcp)

DiscoveryCandidateAnyPath(e, rq) == e.allow_public /\ ~HasBearer(rq.auth)

DiscoveryCandidateNoHeader(e, rq) ==
    e.allow_public /\ ~rq.auth.present /\ StartsWith(Path(rq), P_mcp)

\* allow_public_discovery and (not auth or not bearer) and path.startswith("/mcp")
DiscoveryCandidate(e, rq) ==
    e.allow_public /\ ~HasBearer(rq.auth) /\ StartsWith(Path(rq), P_mcp)

\* str(m) of a method value.
Str(m) == IF m = NonStr THEN <<"7">> ELSE m

\* _extract_jsonrpc_methods: the truthy method of every message that is an object.
ExtractMethods(b) ==
    IF b.kind \in {"empty", "garbage"} THEN << >>
    ELSE LET msgs == IF b.kind = "list" THEN b.msgs ELSE <<b.msgs[1]>>
             Keep(m) == m.dict /\ Truthy(m.method)
             kept == SelectSeq(msgs, Keep)
         IN [i \in 1..Len(kept) |-> Str(kept[i].method)]

public_methods ==
    {<<"initialize">>, <<"tools", "/", "list">>, <<"resources", "/", "list">>,
     <<"prompts", "/", "list">>, <<"logging", "/", "setLevel">>, <<"ping">>}

\* _is_public_method
IsPublicMethod(m) == m \in public_methods \/ StartsWith(m, <<"notifications", "/">>)

AnyPublic(methods) ==
    Len(methods) > 0 /\ \E i \in 1..Len(methods) : IsPublicMethod(methods[i])

\* methods and all(_is_public_method(m) for m in methods)
AllPublic(methods) ==
    Len(methods) > 0 /\ \A i \in 1..Len(methods) : IsPublicMethod(methods[i])

\* base, as computed for the expected audience and for the challenge.
BaseUrl(e, rq) ==
    LET proto == Or(rq.xf_proto, Or(rq.scheme, <<"https">>))
        host == Or(rq.xf_host, rq.host)
    IN IF Truthy(e.base) THEN RStrip(e.base)
       ELSE IF Truthy(host) THEN RStrip(Origin(proto, host))
       ELSE << >>

ExpectedResourceHeadersFirst(e, rq) ==
    LET proto == Or(rq.xf_proto, Or(rq.scheme, <<"https">>))
        host == Or(rq.xf_host, rq.host)
    IN IF Truthy(e.resource) THEN e.resource
       ELSE IF Truthy(host) THEN RStrip(Origin(proto, host)) \o McpSuffix
       ELSE IF Truthy(e.base) THEN RStrip(e.base) \o McpSuffix
       ELSE None

\* expected_resource = OAUTH_RESOURCE or (f"{base}/mcp" if base else None)
ExpectedResource(e, rq) ==
    IF Truthy(e.resource) THEN e.resource
    ELSE IF Truthy(BaseUrl(e, rq)) THEN BaseUrl(e, rq) \o McpSuffix
    ELSE None

RECURSIVE Join(_)
Join(l) ==
    IF Len(l) = 0 THEN << >>
    ELSE IF Len(l) = 1 THEN <<l[1]>>
    ELSE <<l[1], " ">> \o Join(Tail(l))

WellKnown == <<"/", ".well-known", "/", "oauth-protected-resource">>

\* _challenge_headers: the WWW-Authenticate value, by its parameters.
ChallengeHeaders(e, rq) ==
    [scheme |-> "Bearer",
     resource_metadata |-> BaseUrl(e, rq) \o WellKnown,
     scope |-> Join(e.scopes)]

NoChallenge == [absent |-> TRUE]

\* JSONResponse({"ok": True, "message": "MCP endpoint ready. ..."})
ReadyResponse ==
    [status |-> 200, ctype |-> "application/json", www |-> NoChallenge,
     body |-> "ready", detail |-> ""]

UnauthorizedNoReason(e, rq, why) ==
    IF IsSse(Path(rq))
    THEN [status |-> 401, ctype |-> "text/event-stream", www |-> ChallengeHeaders(e, rq),
          body |-> "event: error", detail |-> ""]
    ELSE [status |-> 401, ctype |-> "application/json", www |-> ChallengeHeaders(e, rq),
          body |-> "unauthorized", detail |-> ""]

UnauthorizedAlwaysJson(e, rq, why) ==
    [status |-> 401, ctype |-> "application/json", www |-> ChallengeHeaders(e, rq),
     body |-> "unauthorized", detail |-> why]

\* The 401: one event-stream error frame on the streaming path, a JSON document
\* carrying str(e) otherwise.
Unauthorized(e, rq, why) ==
    IF IsSse(Path(rq))
    THEN [status |-> 401, ctype |-> "text/event-stream", www |-> ChallengeHeaders(e, rq),
          body |-> "event: error", detail |-> ""]
    ELSE [status |-> 401, ctype |-> "application/json", www |-> ChallengeHeaders(e, rq),
          body |-> "unauthorized", detail |-> why]

\* JSONResponse({"error": f"OAuth verify error: {e}"}, status_code=500)
ServerError(what) ==
    [status |-> 500, ctype |-> "application/json", www |-> NoChallenge,
     body |-> "OAuth verify error", detail |-> what]

\* The execution context a request's handling runs in: one per request task.
CtxShared(r) == 1

CtxOf(r) == r

\* current_user.set({"sub": claims.get("sub"), "email": claims.get("email")})
Identity(claims) == [sub |-> claims.sub, email |-> claims.email]

\* body_buf.replay as downstream's receive: the buffered body when the
\* interceptor read it, the transport's own stream otherwise.
Replay(r) == IF buf[r] # NoBody THEN buf[r] ELSE req[r].body

Forward(r, via) ==
    /\ down' = [down EXCEPT ![r] = [@ EXCEPT !.n = @ + 1, !.via = via]]
    /\ pc' = [pc EXCEPT ![r] = "down"]

\* Lines 371-388: compute the expected audience and call verify_bearer_token.
ToVerify(r) ==
    /\ aud' = [aud EXCEPT ![r] = ExpectedResource(env, req[r])]
    /\ pc' = [pc EXCEPT ![r] = "v_call"]

\* __call__ from its entry to its first await, for a request `rq`.
Enter(r, rq) ==
    /\ pc[r] = "idle"
    /\ req' = [req EXCEPT ![r] = rq]
    /\ IF ~rq.http \/ ~Protected(Path(rq))
       THEN /\ decision' = [decision EXCEPT ![r] = "untouched"]
            /\ Forward(r, "raw")
            /\ UNCHANGED aud
       ELSE IF DiscoveryCandidate(env, rq)
       THEN /\ decision' = [decision EXCEPT ![r] = "reading"]
            /\ pc' = [pc EXCEPT ![r] = "read"]
            /\ UNCHANGED <<aud, down>>
       ELSE /\ decision' = [decision EXCEPT ![r] = "protected"]
            /\ aud' = [aud EXCEPT ![r] = ExpectedResource(env, rq)]
            /\ pc' = [pc EXCEPT ![r] = "v_call"]
            /\ UNCHANGED down
    /\ UNCHANGED <<env, jwks_cache, vres, net, buf, resp, ctx, saved, errs, credentials, stream>>

\* Lines 353-367, with the body that body_buf.body() returned: the probe, the
\* public pass-through, or on to verification.
Classify(r, body) ==
    LET methods == ExtractMethods(body)
    IN IF body.kind = "empty" /\ req[r].method = "POST"
       THEN /\ decision' = [decision EXCEPT ![r] = "probe"]
            /\ resp' = [resp EXCEPT ![r] = Append(@, ReadyResponse)]
            /\ pc' = [pc EXCEPT ![r] = "done"]
            /\ UNCHANGED <<aud, down>>
       ELSE IF AllPublic(methods)
       THEN /\ decision' = [decision EXCEPT ![r] = "public"]
            /\ Forward(r, "public")
            /\ UNCHANGED <<aud, resp>>
       ELSE /\ decision' = [decision EXCEPT ![r] = "protected"]
            /\ ToVerify(r)
            /\ UNCHANGED <<down, resp>>

\* body_buf.body() on a transport that delivers the whole body, and what
\* follows it.
ReadBody(r) ==
    /\ pc[r] = "read"
    /\ buf' = [buf EXCEPT ![r] = req[r].body]
    /\ Classify(r, req[r].body)
    /\ UNCHANGED <<env, jwks_cache, req, vres, net, ctx, saved, errs, credentials, stream>>

\* verify_bearer_token returned or raised: lines 389-422.
AfterVerify(r) ==
    /\ pc[r] = "v_ret"
    /\ CASE vres[r].kind = "rejected" ->
              /\ resp' = [resp EXCEPT ![r] = Append(@, Unauthorized(env, req[r], vres[r].reason))]
              /\ pc' = [pc EXCEPT ![r] = "done"]
              /\ UNCHANGED <<down, ctx, saved, errs>>
         [] vres[r].kind = "error" ->
              /\ resp' = [resp EXCEPT ![r] = Append(@, ServerError(vres[r].what))]
              /\ errs' = [errs EXCEPT ![r] = Append(@, [what |-> vres[r].what, fate |-> "500"])]
              /\ pc' = [pc EXCEPT ![r] = "done"]
              /\ UNCHANGED <<down, ctx, saved>>
         [] vres[r].kind = "ok" ->
              /\ saved' = [saved EXCEPT ![r] = ctx[CtxOf(r)]]
              /\ ctx' = [ctx EXCEPT ![CtxOf(r)] = Identity(vres[r].claims)]
              /\ Forward(r, "auth")
              /\ UNCHANGED <<resp, errs>>
    /\ UNCHANGED <<env, jwks_cache, req, aud, vres, net, decision, buf, credentials, stream>>

\* Downstream handling runs: it receives the body and a tool reads the caller's
\* identity (_user_id reads current_user.get()).
DownstreamRuns(r) ==
    /\ pc[r] = "down"
    /\ ~down[r].read
    /\ down' = [down EXCEPT ![r] = [@ EXCEPT !.got = Replay(r), !.seen = ctx[CtxOf(r)], !.read = TRUE]]
    /\ UNCHANGED <<env, jwks_cache, pc, req, aud, vres, net, decision, buf, resp, ctx, saved, errs, credentials, stream>>

\* await self._app(...) returns.
DownstreamReturns(r) ==
    /\ pc[r] = "down"
    /\ pc' = [pc EXCEPT ![r] = "done"]
    /\ ctx' = IF down[r].via = "auth" THEN [ctx EXCEPT ![CtxOf(r)] = saved[r]] ELSE ctx
    /\ UNCHANGED <<env, jwks_cache, req, aud, vres, net, decision, buf, down, resp, saved, errs, credentials, stream>>

\* await self._app(...) raises: swallowed by `except Exception: pass` on the
\* public pass-through, propagated (after the reset) otherwise.
DownstreamRaises(r) ==
    /\ pc[r] = "down"
    /\ CASE down[r].via = "public" ->
              /\ errs' = [errs EXCEPT ![r] = Append(@, [what |-> "downstream", fate |-> "swallowed"])]
              /\ ToVerify(r)
              /\ UNCHANGED ctx
         [] down[r].via = "auth" ->
              /\ errs' = [errs EXCEPT ![r] = Append(@, [what |-> "downstream", fate |-> "propagated"])]
              /\ ctx' = [ctx EXCEPT ![CtxOf(r)] = saved[r]]
              /\ pc' = [pc EXCEPT ![r] = "done"]
              /\ UNCHANGED aud
         [] down[r].via = "raw" ->
              /\ errs' = [errs EXCEPT ![r] = Append(@, [what |-> "downstream", fate |-> "propagated"])]
              /\ pc' = [pc EXCEPT ![r] = "done"]
              /\ UNCHANGED <<aud, ctx>>
    /\ UNCHANGED <<env, jwks_cache, req, vres, net, decision, buf, down, resp, saved, credentials, stream>>

\* ------------------------------------------------- requests and behaviours
Msg(m) == [dict |-> TRUE, method |-> m]
NonDict == [dict |-> FALSE, method |-> None]
Obj(m) == [kind |-> "object", msgs |-> <<Msg(m)>>]
Batch(l) == [kind |-> "list", msgs |-> l]
M_init == <<"initialize">>
M_call == <<"tools", "/", "call">>

Bodies ==
    {[kind |-> "empty"], [kind |-> "garbage"], Batch(<< >>)} \cup
    {Obj(m) : m \in {M_init, M_call, None, <<"notifications", "/", "initialized">>,
                     <<"notifications", "x">>}} \cup
    {Batch(l) : l \in {<<Msg(M_init), Msg(M_call)>>, <<Msg(M_call), Msg(M_init)>>,
                       <<Msg(M_init), Msg(<<"ping">>)>>, <<NonDict, Msg(M_init)>>}}

Paths == {P_mcp, P_mcp \o <<"/">>, P_sse, P_sse \o <<"/", "x", "/">>, P_mcp \o <<"x">>}

\* Request headers and scheme: reached directly, without a Host header, or
\* through a proxy that sets the forwarded headers.
Reached ==
    {[host |-> <<"h">>, xf_host |-> None, xf_proto |-> None, scheme |-> <<"https">>],
     [host |-> None, xf_host |-> None, xf_proto |-> None, scheme |-> <<"http">>],
     [host |-> <<"internal">>, xf_host |-> <<"g">>, xf_proto |-> <<"https">>, scheme |-> <<"http">>]}

U1Token == GoodToken("u1", "e1", Aud1(HostH \o McpSuffix))
U2Token == GoodToken("u2", "", Aud1(HostH \o McpSuffix \o <<"/">>))

GatewayAuths ==
    {NoAuth, [present |-> TRUE, scheme |-> "Basic", token |-> U1Token]} \cup
    {Bearer(t) : t \in {U1Token, U2Token,
                        Token(0, FALSE, "k1", FALSE, FALSE, FALSE, Claims("u1", "e1", Aud1(None))),
                        Token(2, TRUE, "k1", FALSE, TRUE, TRUE, Claims("u1", "e1", Aud1(HostH \o McpSuffix))),
                        Token(2, FALSE, "k1", FALSE, TRUE, TRUE, Claims("u1", "e1", Aud1(HostH \o McpSuffix))),
                        GoodToken("u1", "e1", Aud1(HostG \o McpSuffix))}}

Request(path, method, auth, via, body) ==
    [http |-> TRUE, path |-> path, method |-> method, auth |-> auth, host |-> via.host,
     xf_host |-> via.xf_host, xf_proto |-> via.xf_proto, scheme |-> via.scheme,
     body |-> body]

\* A scope that is not an HTTP request (a websocket or lifespan scope).
NonHttp ==
    [http |-> FALSE, path |-> P_mcp, method |-> "", auth |-> NoAuth, host |-> None,
     xf_host |-> None, xf_proto |-> None, scheme |-> <<"ws">>, body |-> [kind |-> "empty"]]

Requests ==
    {NonHttp} \cup
    {Request(p, m, a, v, b) :
        p \in Paths, m \in {"POST", "GET"}, a \in GatewayAuths, v \in Reached, b \in Bodies}

GatewayEnvs ==
    {[allow_public |-> ap, issuer |-> i, resource |-> res, audience |-> None,
      base |-> b, scopes |-> sc] :
        ap \in BOOLEAN, i \in BOOLEAN, res \in {None, HostH \o McpSuffix \o <<"/">>},
        b \in {None, HostH \o <<"/">>}, sc \in {DefaultScopes, << >>}}

Idle ==
    /\ pc = [r \in Reqs |-> "idle"]
    /\ req = [r \in Reqs |-> NoReq]
    /\ aud = [r \in Reqs |-> None]
    /\ vres = [r \in Reqs |-> NoResult]
    /\ net = [r \in Reqs |-> 0]
    /\ GatewayIdle
    /\ StreamIdle
    /\ CredentialsIdle

\* One request of any kind handled by a process whose key-set cache is empty or
\* was filled by an earlier verification.
Init ==
    /\ env \in GatewayEnvs
    /\ jwks_cache \in {NoJwks, [hasKeys |-> TRUE, keys |-> {"k1"}]}
    /\ jwks_cache # NoJwks => env.issuer
    /\ Idle

Arrive(r) == pc[r] = "idle" /\ \E rq \in Requests : Enter(r, rq)

Handle(r) ==
    \/ ReadBody(r)
    \/ VerifyCall(r)
    \/ FetchOk(r)
    \/ FetchFails(r)
    \/ AfterVerify(r)
    \/ DownstreamRuns(r)
    \/ DownstreamReturns(r)
    \/ DownstreamRaises(r)

Next == Arrive(1) \/ Handle(1)

Spec == Init /\ [][Next]_vars

\* Requests handled concurrently: every interleaving of NReq requests, each an
\* authenticated tool call of one of two users or an unauthenticated one.
ConcRequests ==
    {Request(P_mcp, "POST", a, v, b) :
        a \in {NoAuth, Bearer(U1Token), Bearer(U2Token)},
        v \in {[host |-> <<"h">>, xf_host |-> None, xf_proto |-> None, scheme |-> <<"https">>]},
        b \in {Obj(M_init), Obj(M_call)}}

InitConc ==
    /\ env = [allow_public |-> TRUE, issuer |-> TRUE, resource |-> None, audience |-> None,
              base |-> None, scopes |-> DefaultScopes]
    /\ jwks_cache = NoJwks
    /\ Idle

ArriveConc(r) == pc[r] = "idle" /\ \E rq \in ConcRequests : Enter(r, rq)

NextConc == \E r \in Reqs : ArriveConc(r) \/ Handle(r)

SpecConc == InitConc /\ [][NextConc]_vars

\* ---------------------------------------------------------- the body stream
\* The bytes of a body as the client sends it: none for the empty body, two
\* otherwise, each the body's own.
Bytes(b) == IF b.kind = "empty" THEN << >> ELSE <<[of |-> b, at |-> 1], [of |-> b, at |-> 2]>>

\* What the interceptor makes of `bytes`: the body they are the bytes of, and
\* no JSON document (json.loads raises) for any other bytes.
Loads(bytes) ==
    IF \E b \in Bodies : Bytes(b) = bytes
    THEN CHOOSE b \in Bodies : Bytes(b) = bytes
    ELSE [kind |-> "garbage"]

\* The ways of cutting `bytes` into n chunks, empty ones included.
RECURSIVE Cuts(_, _)
Cuts(bytes, n) ==
    IF n = 1 THEN {<<bytes>>}
    ELSE UNION {{<<SubSeq(bytes, 1, i)>> \o rest :
                    rest \in Cuts(SubSeq(bytes, i + 1, Len(bytes)), n - 1)} :
                 i \in 0..Len(bytes)}

\* What the transport delivers for a body: its chunks, the last with
\* more_body false, or some of them and then the client's disconnect.
Wires(bytes) ==
    LET Delivery(cut) == [i \in 1..Len(cut) |-> HttpRequest(cut[i], i < Len(cut))]
        whole == UNION {{Delivery(cut) : cut \in Cuts(bytes, n)} : n \in 1..MaxChunks}
    IN whole \cup {SubSeq(w, 1, i) \o <<HttpDisconnect>> : w \in whole, i \in 0..MaxChunks - 1}

\* One pass of the loop of _BodyBuffer.body(): a message is received; one that
\* is not http.request is skipped; the chunk with more_body false ends the loop,
\* sets _body and _queue, and __call__ goes on with the body.
BodyReceive(r) ==
    /\ pc[r] = "read"
    /\ transport' = [transport EXCEPT ![r] = Received(@)]
    /\ LET message == Receive(transport[r])
       IN IF message.type # "http.request"
          THEN UNCHANGED <<pc, aud, decision, buf, down, resp, body_buf>>
          ELSE LET chunks == Append(body_buf[r].chunks, message.body)
                   body == Concat(chunks)
               IN IF message.more_body
                  THEN /\ body_buf' = [body_buf EXCEPT ![r] = [@ EXCEPT !.chunks = chunks]]
                       /\ UNCHANGED <<pc, aud, decision, buf, down, resp>>
                  ELSE /\ body_buf' = [body_buf EXCEPT ![r] =
                             [body |-> [bytes |-> body],
                              queue |-> [msgs |-> <<HttpRequest(body, FALSE)>>],
                              chunks |-> chunks]]
                       /\ buf' = [buf EXCEPT ![r] = Loads(body)]
                       /\ Classify(r, Loads(body))
    /\ UNCHANGED <<env, jwks_cache, req, vres, net, ctx, saved, errs, received, credentials>>

\* Downstream handling awaits its receive channel: body_buf.replay on the two
\* transport endpoints, the transport's own receive otherwise.  replay passes
\* the call on to the transport when nothing was buffered, gives the queued
\* message once, and an empty final chunk ever after.
DownstreamReceives(r) ==
    /\ pc[r] = "down"
    /\ Len(received[r]) < MaxRecv
    /\ LET queue == body_buf[r].queue
       IN IF down[r].via = "raw" \/ queue = Null
          THEN /\ received' = [received EXCEPT ![r] = Append(@, Receive(transport[r]))]
               /\ transport' = [transport EXCEPT ![r] = Received(@)]
               /\ UNCHANGED body_buf
          ELSE IF Len(queue.msgs) > 0
          THEN /\ received' = [received EXCEPT ![r] = Append(@, Head(queue.msgs))]
               /\ body_buf' = [body_buf EXCEPT ![r] = [@ EXCEPT !.queue = [msgs |-> Tail(queue.msgs)]]]
               /\ UNCHANGED transport
          ELSE /\ received' = [received EXCEPT ![r] = Append(@, HttpRequest(<< >>, FALSE))]
               /\ UNCHANGED <<transport, body_buf>>
    /\ UNCHANGED <<env, jwks_cache, pc, req, aud, vres, net, gateway, credentials>>

\* Requests to the two transport endpoints, with and without a credential.
BodyRequests ==
    {Request(p, m, a, v, b) :
        p \in {P_mcp, P_sse}, m \in {"POST", "GET"},
        a \in {NoAuth, Bearer(U1Token), Bearer(U2Token)},
        v \in {[host |-> <<"h">>, xf_host |-> None, xf_proto |-> None, scheme |-> <<"https">>]},
        b \in {[kind |-> "empty"], Obj(M_init), Obj(M_call)}}

\* One request whose body the transport is about to deliver in chunks.
InitBody ==
    /\ env \in {[allow_public |-> ap, issuer |-> TRUE, resource |-> None, audience |-> None,
                  base |-> None, scopes |-> DefaultScopes] : ap \in BOOLEAN}
    /\ jwks_cache = [hasKeys |-> TRUE, keys |-> {"k1"}]
    /\ pc = [r \in Reqs |-> "idle"]
    /\ req = [r \in Reqs |-> NoReq]
    /\ aud = [r \in Reqs |-> None]
    /\ vres = [r \in Reqs |-> NoResult]
    /\ net = [r \in Reqs |-> 0]
    /\ GatewayIdle
    /\ CredentialsIdle
    /\ \E rq \in BodyRequests : \E w \in Wires(Bytes(rq.body)) :
          transport = [r \in Reqs |->
              IF r = 1 THEN [NoTransport EXCEPT !.sent = rq, !.wire = w] ELSE NoTransport]

\* The scope of the request reaches __call__.
ArriveBody(r) == pc[r] = "idle" /\ transport[r].sent # Null /\ Enter(r, transport[r].sent)

NextBody ==
    \/ ArriveBody(1)
    \/ BodyReceive(1)
    \/ VerifyCall(1)
    \/ AfterVerify(1)
    \/ DownstreamReceives(1)
    \/ DownstreamReturns(1)
    \/ DownstreamRaises(1)

SpecBody == InitBody /\ [][NextBody]_vars

\* The event loop runs whatever is ready to run.
SpecBodyLive == SpecBody /\ WF_vars(NextBody)

\* ------------------------------------------------ credentials: operations
\* Everything outside the credential code.
outside == <<env, jwks_cache, pc, req, aud, vres, net, gateway, stream>>

\* expires_in of a token response: the number of seconds, or absent.
Lifetimes == {[seconds |-> 60], Null}

\* CompanyName as an answer of the company-info query gives it: a name, none
\* or an empty string.
CompanyNames == {<<"Acme">>, None, << >>}

\* The outcomes of the company-info query of the connect callback: an answer,
\* or an exception (the request failed, or the answer has no CompanyInfo).
Lookups == {[ok |-> TRUE, name |-> n] : n \in CompanyNames} \cup {[ok |-> FALSE]}

\* Lines 95-105: company_name after the try statement.
CompanyName(lookup) == IF lookup.ok THEN lookup.name ELSE None

\* The keyword arguments of upsert_connection besides the key.
UpsertArgs(name, access_enc, refresh_enc, expires_at) ==
    [company_name |-> name, access_token_enc |-> access_enc,
     refresh_token_enc |-> refresh_enc, access_token_expires_at |-> expires_at]

\* A row as the table holds it: its datetime columns without offset.
Stored(row) ==
    [row EXCEPT !.access_token_expires_at = ToColumn(@), !.updated_at = ToColumn(@)]

\* get_connection on a row that exists: the dict of its columns.
GetConnection(row) == row

\* A call ends: it returned or raised.
Finish(c, locals) ==
    /\ cpc' = [cpc EXCEPT ![c] = "done"]
    /\ call' = [call EXCEPT ![c] = locals]

\* _get_valid_access_token from its call to the await of the refresh exchange:
\* get_connection, decrypt, and the decision whether to refresh.
TokenCall(c, k) ==
    /\ cpc[c] = "idle"
    /\ LET row == store[k]
           start == [NoCall EXCEPT !.op = "token", !.key = k, !.conn = row, !.checked_at = clock]
       IN IF row = NoRow
          THEN Finish(c, [start EXCEPT !.outcome = Raises("NotConnected")])
          ELSE LET conn == GetConnection(row)
                   access == IF conn.access_token_enc = Null
                             THEN [ok |-> TRUE, value |-> Null]
                             ELSE Decrypt(conn.access_token_enc)
                   refresh == Decrypt(conn.refresh_token_enc)
               IN IF ~access.ok \/ ~refresh.ok
                  THEN Finish(c, [start EXCEPT !.outcome = Raises("InvalidToken")])
                  ELSE LET need == NeedsRefresh(access.value, conn.access_token_expires_at, clock)
                       IN CASE need = "TypeError" ->
                                  Finish(c, [start EXCEPT !.outcome = Raises("TypeError")])
                            [] need = "no" ->
                                  Finish(c, [start EXCEPT !.outcome = Returns(access.value)])
                            [] need = "yes" ->
                                  /\ cpc' = [cpc EXCEPT ![c] = "refreshing"]
                                  /\ call' = [call EXCEPT ![c] =
                                        [start EXCEPT !.refresh_token = refresh.value,
                                                      !.exchanges = 1]]
    /\ UNCHANGED <<store, clock, issued, hist, outside>>

\* refresh_access_token returned: lines 49-59 up to the await of upsert_connection.
RefreshOk(c) ==
    /\ cpc[c] = "refreshing"
    /\ issued < MaxIssued
    /\ \E rotated \in BOOLEAN, life \in Lifetimes :
          LET n == issued + 1
              token_resp == [access_token |-> AccessToken(n),
                             refresh_token |-> IF rotated THEN RefreshToken(n) ELSE Null,
                             expires_in |-> life]
              new_refresh == IF token_resp.refresh_token = Null
                             THEN call[c].refresh_token ELSE token_resp.refresh_token
              expires_at == DateTime(clock + Lifetime(token_resp), TRUE)
          IN call' = [call EXCEPT ![c] =
                  [@ EXCEPT !.token_resp = token_resp, !.exchanged_at = clock,
                            !.args = UpsertArgs(call[c].conn.company_name,
                                                Encrypt(token_resp.access_token),
                                                Encrypt(new_refresh), expires_at)]]
    /\ issued' = issued + 1
    /\ cpc' = [cpc EXCEPT ![c] = "upsert"]
    /\ UNCHANGED <<store, clock, hist, outside>>

RefreshFailsClearsToken(c) ==
    /\ cpc[c] = "refreshing"
    /\ store' = [store EXCEPT ![call[c].key] =
          IF @ = NoRow THEN @ ELSE [@ EXCEPT !.access_token_enc = Null]]
    /\ Finish(c, [call[c] EXCEPT !.outcome = Raises("upstream")])
    /\ UNCHANGED <<clock, issued, hist, outside>>

\* The refresh exchange fails: a non-success response or a timeout.
RefreshFails(c) ==
    /\ cpc[c] = "refreshing"
    /\ Finish(c, [call[c] EXCEPT !.outcome = Raises("upstream")])
    /\ UNCHANGED <<store, clock, issued, hist, outside>>

\* The request is abandoned while an exchange is awaited.
Abandon(c) ==
    /\ cpc[c] \in {"refreshing", "exchanging"}
    /\ Finish(c, [call[c] EXCEPT !.outcome = Raises("cancelled")])
    /\ UNCHANGED <<store, clock, issued, hist, outside>>

\* upsert_connection from session.get to the await of the commit: the row is
\* built or changed in the session, with utcnow() taken here.
UpsertLoad(c) ==
    /\ cpc[c] = "upsert"
    /\ LET obj == store[call[c].key]
           a == call[c].args
           pend == IF obj = NoRow
                   THEN [kind |-> "insert", set_name |-> TRUE, at |-> UtcNow(clock)]
                   ELSE [kind |-> "update", set_name |-> Truthy(a.company_name),
                         at |-> UtcNow(clock)]
       IN call' = [call EXCEPT ![c] = [@ EXCEPT !.pend = pend]]
    /\ cpc' = [cpc EXCEPT ![c] = "commit"]
    /\ UNCHANGED <<store, clock, issued, hist, outside>>

CommittedOverwritesName(cur, p, a) ==
    Stored(Row(a.company_name, a.access_token_enc, a.refresh_token_enc,
               a.access_token_expires_at, p.at))

CommittedKeepsRefresh(cur, p, a) ==
    Stored(Row(IF p.set_name THEN a.company_name ELSE cur.company_name,
               a.access_token_enc,
               IF cur = NoRow THEN a.refresh_token_enc ELSE cur.refresh_token_enc,
               a.access_token_expires_at, p.at))

\* The row a commit leaves: the INSERT's row, or the row in the table with the
\* columns of the UPDATE set (company_name only `if company_name:`).
Committed(cur, p, a) ==
    Stored(Row(IF p.set_name THEN a.company_name ELSE cur.company_name,
               a.access_token_enc, a.refresh_token_enc, a.access_token_expires_at, p.at))

\* session.commit(): the INSERT or UPDATE reaches the table.  An INSERT of a key
\* that exists by now and an UPDATE of a row that is gone by now both raise.
UpsertCommit(c) ==
    /\ cpc[c] = "commit"
    /\ LET k == call[c].key
           a == call[c].args
           p == call[c].pend
           cur == store[k]
           row == Committed(cur, p, a)
           value == CASE call[c].op = "token" -> call[c].token_resp.access_token
                      [] call[c].op = "connect" -> [connected |-> TRUE]
                      [] OTHER -> Null
       IN CASE p.kind = "insert" /\ cur # NoRow ->
                  /\ Finish(c, [call[c] EXCEPT !.outcome = Raises("IntegrityError")])
                  /\ UNCHANGED <<store, hist>>
            [] p.kind = "update" /\ cur = NoRow ->
                  /\ Finish(c, [call[c] EXCEPT !.outcome = Raises("StaleDataError")])
                  /\ UNCHANGED <<store, hist>>
            [] OTHER ->
                  /\ store' = [store EXCEPT ![k] = row]
                  /\ hist' = [hist EXCEPT ![k] =
                        [@ EXCEPT !.created_by = IF p.kind = "insert" THEN call[c].op ELSE @,
                                  !.before = cur,
                                  !.commit = [by |-> c, kind |-> p.kind, args |-> a, at |-> p.at]]]
                  /\ Finish(c, [call[c] EXCEPT !.outcome = Returns(value), !.writes = @ + 1])
    /\ UNCHANGED <<clock, issued, outside>>

\* intuit_callback is called with an authorization code for key k.
ConnectCall(c, k) ==
    /\ cpc[c] = "idle"
    /\ cpc' = [cpc EXCEPT ![c] = "exchanging"]
    /\ call' = [call EXCEPT ![c] = [NoCall EXCEPT !.op = "connect", !.key = k]]
    /\ UNCHANGED <<store, clock, issued, hist, outside>>

\* exchange_code_for_tokens returned: lines 88-105, the company-name query
\* included, up to the await of upsert_connection.
ExchangeOk(c) ==
    /\ cpc[c] = "exchanging"
    /\ issued < MaxIssued
    /\ \E life \in Lifetimes, lookup \in Lookups :
          LET n == issued + 1
              token_resp == [access_token |-> AccessToken(n),
                             refresh_token |-> RefreshToken(n), expires_in |-> life]
              expires_at == DateTime(clock + Lifetime(token_resp), TRUE)
          IN call' = [call EXCEPT ![c] =
                  [@ EXCEPT !.token_resp = token_resp, !.exchanged_at = clock,
                            !.lookup = lookup,
                            !.args = UpsertArgs(CompanyName(lookup),
                                                Encrypt(token_resp.access_token),
                                                Encrypt(token_resp.refresh_token), expires_at)]]
    /\ issued' = issued + 1
    /\ hist' = [hist EXCEPT ![call[c].key] = [@ EXCEPT !.disconnected = FALSE]]
    /\ cpc' = [cpc EXCEPT ![c] = "upsert"]
    /\ UNCHANGED <<store, clock, outside>>

\* The authorization-code exchange fails.
ExchangeFails(c) ==
    /\ cpc[c] = "exchanging"
    /\ Finish(c, [call[c] EXCEPT !.outcome = Raises("upstream")])
    /\ UNCHANGED <<store, clock, issued, hist, outside>>

\* get_connection: the dict of the row, or ValueError("Not connected").
GetCall(c, k) ==
    /\ cpc[c] = "idle"
    /\ Finish(c, [NoCall EXCEPT !.op = "get", !.key = k, !.conn = store[k],
                                !.outcome = IF store[k] = NoRow THEN Raises("NotConnected")
                                            ELSE Returns(GetConnection(store[k]))])
    /\ UNCHANGED <<store, clock, issued, hist, outside>>

DisconnectReportsDeleted(c, k) ==
    /\ cpc[c] = "idle"
    /\ store' = [store EXCEPT ![k] = NoRow]
    /\ hist' = [hist EXCEPT ![k] = [@ EXCEPT !.disconnected = TRUE, !.before = NoRow,
                                              !.commit = Null]]
    /\ Finish(c, [NoCall EXCEPT !.op = "disconnect", !.key = k, !.conn = store[k],
                                !.outcome = Returns([deleted |-> TRUE]),
                                !.writes = IF store[k] # NoRow THEN 1 ELSE 0])
    /\ UNCHANGED <<clock, issued, outside>>

DisconnectAllOfUser(c, k) ==
    /\ cpc[c] = "idle"
    /\ store' = [q \in Keys |-> IF q[1] = k[1] THEN NoRow ELSE store[q]]
    /\ hist' = [hist EXCEPT ![k] = [@ EXCEPT !.disconnected = TRUE, !.before = NoRow,
                                              !.commit = Null]]
    /\ Finish(c, [NoCall EXCEPT !.op = "disconnect", !.key = k, !.conn = store[k],
                                !.outcome = Returns([deleted |-> store[k] # NoRow]),
                                !.writes = IF store[k] # NoRow THEN 1 ELSE 0])
    /\ UNCHANGED <<clock, issued, outside>>

\* disconnect_qbo: delete_connection removes the row if there is one.
Disconnect(c, k) ==
    /\ cpc[c] = "idle"
    /\ store' = [store EXCEPT ![k] = NoRow]
    /\ hist' = [hist EXCEPT ![k] = [@ EXCEPT !.disconnected = TRUE, !.before = NoRow,
                                              !.commit = Null]]
    /\ Finish(c, [NoCall EXCEPT !.op = "disconnect", !.key = k, !.conn = store[k],
                                !.outcome = Returns([deleted |-> store[k] # NoRow]),
                                !.writes = IF store[k] # NoRow THEN 1 ELSE 0])
    /\ UNCHANGED <<clock, issued, outside>>

\* Time passes.
Tick ==
    /\ clock < MaxTime
    /\ clock' = clock + SafetyMargin
    /\ UNCHANGED <<store, cpc, call, issued, hist, outside>>

\* Rows the table can hold when the process starts: written by earlier connect
\* callbacks and refreshes, possibly under an earlier FERNET_KEY; the access
\* token and its expiry are nullable columns.
InitRows ==
    {NoRow} \cup
    {Row(<<"Old">>, access, Encrypt(RefreshToken(0)), exp, DateTime(0, FALSE)) :
        access \in {Null, Encrypt(AccessToken(0))},
        exp \in {Null, DateTime(0, FALSE), DateTime(30, FALSE), DateTime(60, FALSE)}} \cup
    {Row(None, Null, Encrypt(RefreshToken(0)), Null, DateTime(0, FALSE)),
     Row(None, [cipher |-> AccessToken(0), key |-> OldFernetKey],
         Encrypt(RefreshToken(0)), Null, DateTime(0, FALSE)),
     Row(None, Null, [cipher |-> RefreshToken(0), key |-> OldFernetKey],
         Null, DateTime(0, FALSE))}

InitCredentials ==
    /\ env = [allow_public |-> TRUE, issuer |-> TRUE, resource |-> None, audience |-> None,
              base |-> None, scopes |-> DefaultScopes]
    /\ jwks_cache = NoJwks
    /\ pc = [r \in Reqs |-> "idle"]
    /\ req = [r \in Reqs |-> NoReq]
    /\ aud = [r \in Reqs |-> None]
    /\ vres = [r \in Reqs |-> NoResult]
    /\ net = [r \in Reqs |-> 0]
    /\ GatewayIdle
    /\ StreamIdle
    /\ \E r1 \in InitRows, r2 \in {NoRow, Row(None, Null, Encrypt(RefreshToken(0)), Null,
                                            DateTime(0, FALSE))} :
          /\ store = [k \in Keys |-> IF k = <<"u1", "r1">> THEN r1 ELSE r2]
          /\ hist = [k \in Keys |->
                [NoHistory EXCEPT !.created_by =
                    IF (IF k = <<"u1", "r1">> THEN r1 ELSE r2) = NoRow THEN "none" ELSE "connect"]]
    /\ clock = 0
    /\ cpc = [c \in Callers |-> "idle"]
    /\ call = [c \in Callers |-> NoCall]
    /\ issued = 0

Work(c) ==
    \/ \E k \in Keys : TokenCall(c, k)
    \/ RefreshOk(c)
    \/ RefreshFails(c)
    \/ Abandon(c)
    \/ UpsertLoad(c)
    \/ UpsertCommit(c)
    \/ \E k \in Keys : ConnectCall(c, k)
    \/ ExchangeOk(c)
    \/ ExchangeFails(c)
    \/ \E k \in Keys : Disconnect(c, k)
    \/ \E k \in Keys : GetCall(c, k)

NextCredentials == Tick \/ \E c \in Callers : Work(c)

SpecCredentials == InitCredentials /\ [][NextCredentials]_vars

\* --------------------------------------------- the store, called directly
\* Arguments of a direct call of upsert_connection: every combination of a
\* name, no name or an empty one, an access token or none, an expiry (with or
\* without offset) or none.
UpsertInputs ==
    {UpsertArgs(name, access, Encrypt(RefreshToken(1)), exp) :
        name \in CompanyNames,
        access \in {Null, Encrypt(AccessToken(1))},
        exp \in {Null, DateTime(90, TRUE), DateTime(90, FALSE)}}

\* upsert_connection is called with arguments of the caller's choice.
UpsertCall(c, k) ==
    /\ cpc[c] = "idle"
    /\ \E a \in UpsertInputs :
          call' = [call EXCEPT ![c] = [NoCall EXCEPT !.op = "upsert", !.key = k, !.args = a]]
    /\ cpc' = [cpc EXCEPT ![c] = "upsert"]
    /\ UNCHANGED <<store, clock, issued, hist, outside>>

StoreWork(c) ==
    \/ \E k \in Keys : UpsertCall(c, k)
    \/ UpsertLoad(c)
    \/ UpsertCommit(c)
    \/ \E k \in Keys : GetCall(c, k)

NextStore == Tick \/ \E c \in Callers : StoreWork(c)

SpecStore == InitCredentials /\ [][NextStore]_vars

\* ------------------------------------------------- the default company
\* The keys of a table that holds the credentials of two users.
ListKeys == Keys \cup {<<"u2", "r1">>}

ListConnectionsAllUsers(st, user_id) ==
    LET mine == {k \in DOMAIN st : st[k] # NoRow}
        n == Cardinality(mine)
    IN {[i \in 1..n |-> [realm_id |-> o[i][2], company_name |-> st[o[i]].company_name,
                         updated_at |-> st[o[i]].updated_at]] :
           o \in {f \in [1..n -> mine] :
                    /\ \A i, j \in 1..n : i # j => f[i] # f[j]
                    /\ \A i, j \in 1..n :
                          i < j => st[f[i]].updated_at.t >= st[f[j]].updated_at.t}}

\* list_connections: the rows of the user, ordered by updated_at descending,
\* as dicts of realm_id, company_name and updated_at; rows with equal
\* updated_at come in either order.
ListConnections(st, user_id) ==
    LET mine == {k \in DOMAIN st : k[1] = user_id /\ st[k] # NoRow}
        n == Cardinality(mine)
    IN {[i \in 1..n |-> [realm_id |-> o[i][2], company_name |-> st[o[i]].company_name,
                         updated_at |-> st[o[i]].updated_at]] :
           o \in {f \in [1..n -> mine] :
                    /\ \A i, j \in 1..n : i # j => f[i] # f[j]
                    /\ \A i, j \in 1..n :
                          i < j => st[f[i]].updated_at.t >= st[f[j]].updated_at.t}}

\* _resolve_realm_id: the realm_id given, or the first company of
\* list_connections; ValueError when the user has none.  A realm_id that is
\* None or empty is the empty string here.
ResolveCall(c, user_id, realm_id) ==
    /\ cpc[c] = "idle"
    /\ IF realm_id # ""
       THEN Finish(c, [NoCall EXCEPT !.op = "resolve", !.key = <<user_id, realm_id>>,
                                     !.outcome = Returns([realm_id |-> realm_id])])
       ELSE \E companies \in ListConnections(store, user_id) :
               Finish(c, [NoCall EXCEPT
                             !.op = "resolve", !.key = <<user_id, "">>,
                             !.args = [companies |-> companies],
                             !.outcome = IF Len(companies) = 0 THEN Raises("NoCompanies")
                                         ELSE Returns([realm_id |-> companies[1].realm_id])])
    /\ UNCHANGED <<store, clock, issued, hist, outside>>

\* A table with the credentials of two users, written at different times
\* before the process started.
InitList ==
    /\ env = [allow_public |-> TRUE, issuer |-> TRUE, resource |-> None, audience |-> None,
              base |-> None, scopes |-> DefaultScopes]
    /\ jwks_cache = NoJwks
    /\ pc = [r \in Reqs |-> "idle"]
    /\ req = [r \in Reqs |-> NoReq]
    /\ aud = [r \in Reqs |-> None]
    /\ vres = [r \in Reqs |-> NoResult]
    /\ net = [r \in Reqs |-> 0]
    /\ GatewayIdle
    /\ StreamIdle
    /\ \E t1 \in {-20, -5}, have2 \in BOOLEAN, have3 \in BOOLEAN :
          LET row(t) == Row(<<"Old">>, Null, Encrypt(RefreshToken(0)), Null, DateTime(t, FALSE))
          IN store = [k \in ListKeys |->
                        CASE k = <<"u1", "r1">> -> row(t1)
                          [] k = <<"u1", "r2">> -> IF have2 THEN row(-10) ELSE NoRow
                          [] OTHER -> IF have3 THEN row(0) ELSE NoRow]
    /\ hist = [k \in ListKeys |->
                 [NoHistory EXCEPT !.created_by = IF store[k] = NoRow THEN "none" ELSE "connect"]]
    /\ clock = 0
    /\ cpc = [c \in Callers |-> "idle"]
    /\ call = [c \in Callers |-> NoCall]
    /\ issued = 0

ListWork(c) ==
    \/ \E k \in ListKeys : ConnectCall(c, k)
    \/ ExchangeOk(c)
    \/ UpsertLoad(c)
    \/ UpsertCommit(c)
    \/ \E k \in ListKeys : Disconnect(c, k)
    \/ \E user_id \in {"u1", "u2"}, realm_id \in {"", "r1"} : ResolveCall(c, user_id, realm_id)

NextList == Tick \/ \E c \in Callers : ListWork(c)

SpecList == InitList /\ [][NextList]_vars

\* ------------------------------------------------------ discovery documents
\* _public_base_url_from_request: the configured base URL, else the origin the
\* request names, else the empty string.
public_base_url_from_request(e, rq) ==
    LET host == Or(rq.xf_host, rq.host)
        proto == Or(rq.xf_proto, rq.scheme)
    IN IF Truthy(e.base) THEN RStrip(e.base)
       ELSE IF Truthy(host) THEN RStrip(Origin(proto, host))
       ELSE << >>

\* _resource_url: OAUTH_RESOURCE less its trailing separators, else the base
\* URL plus /mcp, else "/mcp".
resource_url(e, rq) ==
    IF Truthy(e.resource) THEN RStrip(e.resource)
    ELSE LET base == RStrip(public_base_url_from_request(e, rq))
         IN IF Truthy(base) THEN base \o McpSuffix ELSE McpSuffix

\* The protected-resource metadata document, by the fields derived from
\* configuration and request.
oauth_protected_resource(e, rq) ==
    [resource |-> resource_url(e, rq),
     authorization_servers |-> IF ISSUER(e) = None THEN << >> ELSE <<ISSUER(e)>>,
     scopes_supported |-> e.scopes]

\* ================================================================ claims
\* ------------------------------------------------ the interceptor's claims
Arrived(r) == pc[r] # "idle"
Done(r) == pc[r] = "done"
Invoked(r) == down[r].n > 0
Verified(r) == vres[r].kind = "ok"
Answers(r) == resp[r]
NormPath(r) == RStrip(req[r].path)
OnUnary(r) ==
    Arrived(r) /\ req[r].http /\ (NormPath(r) = P_mcp \/ StartsWith(NormPath(r), <<"/", "mcp", "/">>))
OnStreaming(r) ==
    Arrived(r) /\ req[r].http /\ (NormPath(r) = P_sse \/ StartsWith(NormPath(r), <<"/", "sse", "/">>))
BearerHeader(r) == req[r].auth.present /\ req[r].auth.scheme \in {"Bearer", "bearer", "BEARER"}

\* The method names a body yields: those of its messages that are objects with
\* a non-empty method.
Messages(b) == IF b.kind \in {"object", "list"} THEN {b.msgs[i] : i \in 1..Len(b.msgs)} ELSE {}
Yields(b) ==
    {(IF m.method = NonStr THEN <<"7">> ELSE m.method) :
        m \in {x \in Messages(b) : x.dict /\ x.method \notin {None, << >>}}}
AllowListed(m) ==
    \/ m \in {<<"initialize">>, <<"tools", "/", "list">>, <<"resources", "/", "list">>,
              <<"prompts", "/", "list">>, <<"logging", "/", "setLevel">>, <<"ping">>}
    \/ (Len(m) >= 2 /\ m[1] = "notifications" /\ m[2] = "/")
YieldsOutside(r) == \E m \in Yields(req[r].body) : ~AllowListed(m)
Mixed(r) == YieldsOutside(r) /\ \E m \in Yields(req[r].body) : AllowListed(m)

\* An expected audience can be derived: a configured resource or audience, a
\* configured base URL, or a host named by the request's headers.
AudienceKnown(r) ==
    \/ env.resource \notin {None, << >>} \/ env.audience \notin {None, << >>}
    \/ env.base \notin {None, << >>}
    \/ req[r].xf_host \notin {None, << >>} \/ req[r].host \notin {None, << >>}

\* C1 as stated: a mixed batch without Authorization header is answered 401.
C1_Original ==
    \A r \in Reqs :
        (OnUnary(r) /\ YieldsOutside(r)) =>
            /\ Invoked(r) => Verified(r)
            /\ (Done(r) /\ Mixed(r) /\ ~req[r].auth.present) =>
                  (~Invoked(r) /\ Len(Answers(r)) = 1 /\ Answers(r)[1].status = 401)

\* C1 (amended): on the unary path a request whose body yields a method outside
\* the allow-list is never forwarded downstream unless bearer verification
\* succeeded for it; a batch mixing an allow-listed and a non-allow-listed method,
\* sent without Authorization header, is not forwarded and is answered 401, or
\* 500 when no expected audience can be derived from configuration or headers.
C1_NonPublicNeedsAuth ==
    \A r \in Reqs :
        (OnUnary(r) /\ YieldsOutside(r)) =>
            /\ Invoked(r) => Verified(r)
            /\ (Done(r) /\ Mixed(r) /\ ~req[r].auth.present) =>
                  /\ ~Invoked(r)
                  /\ Len(Answers(r)) = 1
                  /\ Answers(r)[1].status = IF AudienceKnown(r) THEN 401 ELSE 500

C1_Witness ==
    /\ Done(1) /\ OnUnary(1) /\ env.allow_public /\ ~req[1].auth.present
    /\ req[1].body = Batch(<<Msg(M_init), Msg(M_call)>>)
    /\ buf[1] = req[1].body
    /\ ~Invoked(1) /\ Answers(1)[1].status = 401

\* C2: on the streaming path neither the public-discovery exemption nor the
\* probe acknowledgement applies: downstream is invoked only after bearer
\* verification succeeded, and a request that is not forwarded is answered by the
\* interceptor itself (401 or 500), whatever its method, body or the toggle.
C2_StreamingAlwaysAuth ==
    \A r \in Reqs :
        OnStreaming(r) =>
            /\ Invoked(r) => Verified(r)
            /\ decision[r] \notin {"probe", "public", "reading"}
            /\ buf[r] = NoBody
            /\ \A i \in 1..Len(Answers(r)) : Answers(r)[i].status \in {401, 500}
            /\ (Done(r) /\ ~Verified(r)) => (~Invoked(r) /\ Len(Answers(r)) = 1)

C2_Witness ==
    /\ Done(1) /\ OnStreaming(1) /\ env.allow_public /\ ~req[1].auth.present
    /\ req[1].method = "POST" /\ req[1].body = [kind |-> "empty"]
    /\ ~Invoked(1) /\ Answers(1)[1].status = 401

\* The identity of a request: sub and email of the claims of its own token.
OwnIdentity(r) == [sub |-> req[r].auth.token.claims.sub, email |-> req[r].auth.token.claims.email]
InAuthenticatedCall(r) == pc[r] = "down" /\ down[r].via = "auth"

\* C3: the identity published after a successful verification is what downstream
\* handling of that request reads, and nothing else reads it: outside the
\* authenticated downstream call of request r the context of r holds the prior
\* value (none), on return and on raise alike, and under every interleaving
\* downstream handling of a request never reads another request's identity.
C3_IdentityRequestScoped ==
    \A r \in Reqs :
        /\ InAuthenticatedCall(r) => ctx[r] = OwnIdentity(r)
        /\ ~InAuthenticatedCall(r) => ctx[r] = NoUser
        /\ down[r].read =>
              down[r].seen = IF down[r].via = "auth" THEN OwnIdentity(r) ELSE NoUser

C3_Witness ==
    /\ Done(1) /\ down[1].via = "auth" /\ down[1].read /\ Len(errs[1]) = 1
    /\ InAuthenticatedCall(2) /\ down[2].read
    /\ down[1].seen.sub = "u1" /\ down[2].seen.sub = "u2"

\* C4 as stated (discovery enabled, its default): a POST to the unary path with
\* only allow-listed methods and no bearer header is forwarded downstream exactly
\* once, without token verification and without a 401, with the original body.
C4_PublicPassThrough ==
    \A r \in Reqs :
        (/\ Done(r) /\ OnUnary(r) /\ req[r].method = "POST" /\ ~BearerHeader(r)
         /\ env.allow_public
         /\ Yields(req[r].body) # {} /\ ~YieldsOutside(r)) =>
            /\ down[r].n = 1
            /\ vres[r] = NoResult
            /\ Answers(r) = << >>
            /\ down[r].read => down[r].got = req[r].body

EmptyProbe(r) ==
    /\ Done(r) /\ OnUnary(r) /\ req[r].method = "POST" /\ ~BearerHeader(r)
    /\ req[r].body = [kind |-> "empty"]

ProbeAnswered(r) ==
    /\ Len(Answers(r)) = 1 /\ Answers(r)[1].status = 200 /\ Answers(r)[1].body = "ready"
    /\ ~Invoked(r)
    /\ vres[r] = NoResult /\ net[r] = 0

\* C5 as stated: every empty-body POST without bearer header gets the probe answer.
C5_Original == \A r \in Reqs : EmptyProbe(r) => ProbeAnswered(r)

\* C5 (amended): when the discovery exemption is enabled (its default), a POST to
\* the unary path with an empty body and no bearer header is answered with the
\* synthetic readiness acknowledgement (status 200); it is never forwarded
\* downstream and never subjected to token verification.
C5_ProbeAcknowledged == \A r \in Reqs : (EmptyProbe(r) /\ env.allow_public) => ProbeAnswered(r)

C5_Witness ==
    /\ EmptyProbe(1) /\ env.allow_public /\ req[1].auth.present
    /\ req[1].path = P_mcp \o <<"/">>
    /\ ProbeAnswered(1)

\* The base URL the deployment is reached at: the configured override, else the
\* forwarded or direct host with the forwarded or direct scheme.
ClaimBase(r) ==
    IF env.base \notin {None, << >>} THEN RStrip(env.base)
    ELSE IF req[r].xf_host \notin {None, << >>}
         THEN (IF req[r].xf_proto # None THEN req[r].xf_proto ELSE req[r].scheme)
              \o <<"://">> \o req[r].xf_host
    ELSE IF req[r].host \notin {None, << >>}
         THEN (IF req[r].xf_proto # None THEN req[r].xf_proto ELSE req[r].scheme)
              \o <<"://">> \o req[r].host
    ELSE << >>

C7_NoErrorSwallowed ==
    \A r \in Reqs :
        (Done(r) /\ (OnUnary(r) \/ OnStreaming(r))) =>
            \A i \in 1..Len(errs[r]) :
                /\ errs[r][i].fate \in {"500", "propagated"}
                /\ errs[r][i].fate = "500" => Answers(r)[Len(Answers(r))].status = 500


\* Two strings are equal up to trailing separators: they share a core that does
\* not end in a separator, each followed by separators only.
EndsClean(c) == Len(c) = 0 \/ c[Len(c)] # "/"
IsCoreOf(c, s) == EndsClean(c) /\ \E n \in 0..Len(s) : s = c \o Slashes(n)
SameUpToTrailing(a, b) == \E k \in 0..Len(a) : IsCoreOf(SubSeq(a, 1, k), a) /\ IsCoreOf(SubSeq(a, 1, k), b)

Expected(r) == Or(aud[r], DEFAULT_AUDIENCE(env))
Returned(r) == pc[r] = "v_ret"
Tok(r) == req[r].auth.token
StrEntries(r) == {a \in {AudList(Tok(r).claims.aud)[i] : i \in 1..Len(AudList(Tok(r).claims.aud))} : IsStr(a)}

\* The token has three segments, its key id is in the cached key set, its
\* signature and issuer are valid and an audience entry equals the expected
\* resource up to trailing separators.
C8_Pre(r) ==
    /\ Returned(r) /\ HasBearer(req[r].auth) /\ Tok(r).dots = 2
    /\ DocTruthy(jwks_cache) /\ Tok(r).kid \in jwks_cache.keys
    /\ Tok(r).sig /\ Tok(r).iss
    /\ Truthy(Expected(r))
    /\ \E a \in StrEntries(r) : SameUpToTrailing(a, Expected(r))

ReachedAudience(r) ==
    /\ Returned(r) /\ Truthy(Expected(r)) /\ HasBearer(req[r].auth) /\ Tok(r).dots = 2
    /\ vres[r].kind \in {"ok", "rejected"}
    /\ Tok(r).hdr /\ Tok(r).kid \in jwks_cache.keys /\ JwtDecodeOk(Tok(r))

AudienceRejected(r) == Returned(r) /\ vres[r] = Rejected("audience_mismatch")

\* C9 as stated: values are normalized by stripping a single trailing separator.
C9_Original ==
    \A r \in Reqs :
        /\ AudienceRejected(r) => ReachedAudience(r)
        /\ ReachedAudience(r) =>
              (AudienceRejected(r) <=>
                  ~\E a \in StrEntries(r) : StripOne(a) = StripOne(Expected(r)))

\* C9 (amended): the expected audience and every string audience value of the
\* token are normalized by stripping all trailing separators; the token (a single
\* string or a list) is rejected with the audience-mismatch reason exactly when
\* the comparison is reached and no string entry equals the expected value up to
\* trailing separators.
C9_AudienceRule ==
    \A r \in Reqs :
        /\ AudienceRejected(r) => ReachedAudience(r)
        /\ ReachedAudience(r) =>
              (AudienceRejected(r) <=>
                  ~\E a \in StrEntries(r) : SameUpToTrailing(a, Expected(r)))

C9_Witness ==
    /\ ReachedAudience(1) /\ vres[1].kind = "ok"
    /\ Tok(1).claims.aud = AudL(<<NonStr, HostH \o McpSuffix \o <<"/">>>>)
    /\ Expected(1) = HostH \o McpSuffix \o Slashes(2)

Malformed(r) == pc[r] # "idle" /\ HasBearer(req[r].auth) /\ Tok(r).dots # 2

\* C10 as stated: a malformed token is rejected with the structural reason, and
\* no network call is made.
C10_Original ==
    \A r \in Reqs :
        (Returned(r) /\ Malformed(r)) =>
            (vres[r] = Rejected("malformed_token") /\ net[r] = 0)

\* C10 (amended): a bearer token that is not three dot-separated segments makes
\* verify_bearer_token fail without any key-set fetch (zero network calls at every
\* point of the call, also with the cache empty); the failure is the structural
\* rejection whenever an expected audience is available, and the missing-audience
\* configuration error otherwise.
C10_MalformedNoNetwork ==
    \A r \in Reqs :
        Malformed(r) =>
            /\ net[r] = 0
            /\ pc[r] # "v_fetch"
            /\ Returned(r) =>
                  vres[r] = IF Truthy(Expected(r)) THEN Rejected("malformed_token")
                            ELSE Failed("no_audience")

C10_Witness ==
    /\ Returned(1) /\ Malformed(1) /\ ~DocTruthy(jwks_cache) /\ env.issuer
    /\ vres[1] = Rejected("malformed_token") /\ net[1] = 0

\* ------------------------------------------------------ rejection reasons
\* The five kinds of rejection; a credential whose header cannot be parsed is a
\* malformed token.
ReasonKind(why) ==
    CASE why = "missing_header" -> "missing-header"
      [] why \in {"malformed_token", "not_a_jwt"} -> "malformed-token"
      [] why = "unknown_kid" -> "unknown-key"
      [] why = "invalid_token" -> "signature/issuer-invalid"
      [] why = "audience_mismatch" -> "audience-mismatch"

\* The reason values of different kinds are different values.
KindsDistinct ==
    \A a \in Reasons, b \in Reasons :
        ReasonKind(a) # ReasonKind(b) => (a # b /\ ReasonText(a) # ReasonText(b))

RejectedRequest(r) == Done(r) /\ vres[r].kind = "rejected" /\ Len(Answers(r)) > 0
LastAnswer(r) == Answers(r)[Len(Answers(r))]

\* C11 as stated: the caller of the interceptor receives the reason of every
\* rejected request.
C11_Original ==
    /\ KindsDistinct
    /\ \A r \in Reqs :
          RejectedRequest(r) =>
              (vres[r].reason \in Reasons /\ LastAnswer(r).detail = vres[r].reason)

\* C11 (amended): every failing verification yields a reason that identifies
\* exactly one of the five kinds, reasons of different kinds being different
\* values; the 401 of a rejected request carries that reason on the unary path,
\* while on the streaming path the error frame is a fixed text without it.
C11_ReasonsDistinguishable ==
    /\ KindsDistinct
    /\ \A r \in Reqs :
          RejectedRequest(r) =>
              /\ vres[r].reason \in Reasons
              /\ LastAnswer(r).status = 401
              /\ LastAnswer(r).detail = IF OnStreaming(r) THEN "" ELSE vres[r].reason

C11_Witness ==
    /\ RejectedRequest(1) /\ OnUnary(1) /\ vres[1] = Rejected("not_a_jwt")
    /\ LastAnswer(1).detail = "not_a_jwt" /\ net[1] = 1

\* ------------------------------------------------------------ the key set
Fetchers == {r \in Reqs : net[r] > 0}

\* C12 as stated: across every interleaving of verifications, also of several
\* that start while the cache is still empty, at most one key-set fetch is made.
C12_FetchedOnce ==
    /\ Cardinality(Fetchers) <= 1
    /\ \A r \in Reqs : net[r] <= 1

\* ------------------------------------------------- the token a call returns
TokenCalls == {c \in Callers : cpc[c] # "idle" /\ call[c].op = "token"}

\* The call found a record whose tokens decrypt.
Readable(c) ==
    /\ call[c].conn # NoRow
    /\ call[c].conn.refresh_token_enc.key = FernetKey
    /\ call[c].conn.access_token_enc # Null => call[c].conn.access_token_enc.key = FernetKey

\* The stored access token is absent, or the stored expiry is unset, or it is
\* not more than 30 seconds after the time of the call.
Due(c) ==
    \/ call[c].conn.access_token_enc = Null
    \/ call[c].conn.access_token_expires_at = Null
    \/ call[c].conn.access_token_expires_at.t <= call[c].checked_at + 30

\* C13 as stated: a call performs a refresh exchange exactly when the stored
\* token is due; when it is not due the call returns the stored access token,
\* performs no exchange and writes nothing.
C13_RefreshIffDue ==
    \A c \in TokenCalls :
        Readable(c) =>
            /\ call[c].exchanges > 0 <=> Due(c)
            /\ ~Due(c) =>
                  /\ cpc[c] = "done"
                  /\ call[c].outcome = Returns(call[c].conn.access_token_enc.cipher)
                  /\ call[c].writes = 0

\* No other caller is at work on the key of c's call.
Alone(c) ==
    \A d \in Callers \ {c} : cpc[d] = "idle" \/ call[d].key # call[c].key

\* The recorded expiry lies before the time of the call.
ExpiredRecord(c) ==
    /\ call[c].conn # NoRow
    /\ call[c].conn.access_token_expires_at # Null
    /\ call[c].conn.access_token_expires_at.t < call[c].checked_at

Interrupted(c) == call[c].outcome \in {Raises("upstream"), Raises("cancelled")}

\* C14 as stated: a call that finds the recorded expiry in the past, and whose
\* exchange is answered, makes exactly one refresh exchange with the stored
\* refresh token, returns the new access token and persists the new access
\* token, the expiry (time of the refresh plus the lifetime), the rotated or else
\* the previous refresh token, and the unchanged company_name.
C14_ExpiredIsRefreshed ==
    \A c \in TokenCalls :
        (/\ cpc[c] = "done" /\ Readable(c) /\ ExpiredRecord(c) /\ Alone(c)
         /\ ~Interrupted(c)) =>
            /\ call[c].exchanges = 1
            /\ call[c].refresh_token = call[c].conn.refresh_token_enc.cipher
            /\ call[c].outcome = Returns(call[c].token_answer.access_token)
            /\ LET row == store[call[c].key]
                   answer == call[c].token_resp
               IN /\ row # NoRow
                  /\ row.access_token_enc = Encrypt(answer.access_token)
                  /\ row.access_token_expires_at.t = call[c].exchanged_at + Lifetime(answer)
                  /\ row.refresh_token_enc =
                        IF answer.refresh_token # Null THEN Encrypt(answer.refresh_token)
                        ELSE call[c].conn.refresh_token_enc
                  /\ row.company_name = call[c].conn.company_name

\* C15: when the refresh exchange fails or the request is abandoned while the
\* exchange is awaited, the call raises that error after exactly one attempt and
\* has written nothing: with no other caller at work on the key, the stored
\* record is exactly the one the call read.
C15_FailedRefreshWritesNothing ==
    \A c \in TokenCalls :
        Interrupted(c) =>
            /\ cpc[c] = "done"
            /\ call[c].exchanges = 1
            /\ call[c].writes = 0
            /\ call[c].args = Null /\ call[c].pend = Null
            /\ Alone(c) => store[call[c].key] = call[c].conn

C15_Witness ==
    /\ 1 \in TokenCalls /\ call[1].outcome = Raises("upstream") /\ cpc[2] = "idle"
    /\ call[1].conn.access_token_enc = Null
    /\ store[call[1].key] = call[1].conn /\ clock = 30

\* ------------------------------------------------------ concurrent refreshes
\* c and d both read the same record of the same key and both went on to
\* refresh: neither had persisted when the other passed the expiry check.  Both
\* exchanges were answered, both calls have finished and no third caller is at
\* work on the key.
RacedRefresh(c, d) ==
    /\ c # d /\ c \in TokenCalls /\ d \in TokenCalls
    /\ call[c].key = call[d].key /\ call[c].conn = call[d].conn
    /\ cpc[c] = "done" /\ cpc[d] = "done"
    /\ call[c].exchanges = 1 /\ call[d].exchanges = 1
    /\ ~Interrupted(c) /\ ~Interrupted(d)
    /\ \A e \in Callers \ {c, d} : cpc[e] = "idle" \/ call[e].key # call[c].key

\* C16: two callers that both pass the expiry check before either persists each
\* make their own exchange, both succeed and return the access token of their own
\* exchange, and afterwards the stored access token, refresh token and expiry are
\* those of one and the same write, the one that landed last.
C16_LastWriteWins ==
    \A c \in Callers, d \in Callers :
        RacedRefresh(c, d) =>
            /\ call[c].outcome = Returns(call[c].token_resp.access_token)
            /\ call[d].outcome = Returns(call[d].token_resp.access_token)
            /\ call[c].token_resp.access_token # call[d].token_resp.access_token
            /\ hist[call[c].key].commit # Null
            /\ LET last == hist[call[c].key].commit.by
                   row == store[call[c].key]
               IN /\ last \in {c, d}
                  /\ row.access_token_enc = Encrypt(call[last].token_resp.access_token)
                  /\ row.refresh_token_enc = call[last].args.refresh_token_enc
                  /\ row.access_token_expires_at.t = call[last].args.access_token_expires_at.t

C16_Witness ==
    /\ RacedRefresh(1, 2)
    /\ hist[call[1].key].commit.by = 1
    /\ call[1].token_resp.refresh_token = Null /\ call[2].token_resp.refresh_token # Null
    /\ call[1].outcome = Returns(AccessToken(1)) /\ call[2].outcome = Returns(AccessToken(2))
    /\ store[call[1].key].refresh_token_enc = Encrypt(RefreshToken(0))

\* --------------------------------------------------------------- lifecycle
\* C17 as stated: a row comes into existence only through a successful
\* authorization-code exchange, and once a disconnect has completed no row for
\* the key exists until a later successful authorization-code exchange.
C17_Lifecycle ==
    \A k \in Keys :
        /\ hist[k].created_by \in {"none", "connect"}
        /\ hist[k].disconnected => store[k] = NoRow

\* --------------------------------------------------------------- the store
\* c's upsert is the last commit on its key, and d read the key after it.
ReadBack(c, d) ==
    /\ cpc[c] = "done" /\ call[c].op = "upsert" /\ call[c].writes = 1
    /\ hist[call[c].key].commit # Null /\ hist[call[c].key].commit.by = c
    /\ cpc[d] = "done" /\ call[d].op = "get" /\ call[d].key = call[c].key
    /\ call[d].conn = store[call[c].key]

\* C18 as stated: get after upsert returns exactly the given access_enc,
\* refresh_enc and expiry, company_name equal to the given name when it is
\* non-empty and otherwise the name stored before (absent for a new key), and
\* updated_at equal to the time of the upsert.
C18_UpsertRoundTrip ==
    \A c \in Callers, d \in Callers :
        ReadBack(c, d) =>
            LET a == call[c].args
                before == hist[call[c].key].before
            IN /\ call[d].outcome.kind = "ok"
               /\ call[d].outcome.value.access_token_enc = a.access_token_enc
               /\ call[d].outcome.value.refresh_token_enc = a.refresh_token_enc
               /\ call[d].outcome.value.access_token_expires_at = a.access_token_expires_at
               /\ call[d].outcome.value.company_name =
                     IF a.company_name \notin {None, << >>} THEN a.company_name
                     ELSE IF before = NoRow THEN None ELSE before.company_name
               /\ call[d].outcome.value.updated_at.t = hist[call[c].key].commit.at.t

\* ---------------------------------------------------- tokens at rest
ClearTokens == {AccessToken(n) : n \in 0..MaxIssued} \cup {RefreshToken(n) : n \in 0..MaxIssued}

\* x is an output of the encryption transform, under some key.
IsCipher(x) == DOMAIN x = {"cipher", "key"} /\ x.cipher \in ClearTokens

\* C19: every stored access-token and refresh-token field is an output of the
\* encryption transform; the connect callback and the refresh write encrypt of
\* the very tokens they received; a record whose tokens do not decrypt makes the
\* call fail with the decryption error, which is not the not-connected error
\* raised exactly when there is no record.
C19_TokensEncryptedAtRest ==
    /\ \A k \in Keys :
          store[k] # NoRow =>
              /\ IsCipher(store[k].refresh_token_enc)
              /\ store[k].access_token_enc # Null => IsCipher(store[k].access_token_enc)
    /\ \A c \in Callers :
          call[c].args # Null =>
              /\ call[c].args.access_token_enc = [cipher |-> call[c].token_resp.access_token, key |-> FernetKey]
              /\ IsCipher(call[c].args.refresh_token_enc)
              /\ call[c].args.refresh_token_enc.key = FernetKey
    /\ \A c \in TokenCalls :
          /\ call[c].outcome = Raises("NotConnected") <=> call[c].conn = NoRow
          /\ (call[c].conn # NoRow /\ ~Readable(c)) =>
                (cpc[c] = "done" /\ call[c].outcome = Raises("InvalidToken"))
          /\ call[c].outcome = Raises("InvalidToken") => (call[c].conn # NoRow /\ ~Readable(c))

C19_Witness ==
    /\ 1 \in TokenCalls /\ call[1].outcome = Raises("InvalidToken")
    /\ call[1].conn.refresh_token_enc.key = OldFernetKey
    /\ cpc[2] = "done" /\ call[2].op = "connect" /\ call[2].writes = 1
    /\ store[call[2].key].access_token_enc = [cipher |-> AccessToken(1), key |-> FernetKey]

\* C20 as stated: no committed write lowers the updated_at of a key, also when
\* upserts run concurrently, and an existing credential has a refresh token.
C20_UpdatedAtMonotonic ==
    \A k \in Keys :
        store[k] # NoRow =>
            /\ store[k].refresh_token_enc # Null
            /\ hist[k].before # NoRow => store[k].updated_at.t >= hist[k].before.updated_at.t

\* ------------------------------------------------------------ absent keys
\* A call that found no row under its key when it looked.
FoundNothing(c) == cpc[c] = "done" /\ call[c].conn = NoRow

\* Caller c makes its whole call in this step.
CallsAtOnce(c) == cpc[c] = "idle" /\ cpc'[c] = "done"

\* C21: on a key without a row, delete returns false, get and
\* get_valid_access_token raise NotConnected, none of them makes a refresh
\* exchange and the store stays as it is; delete on a key with a row removes
\* the row and returns true.
C21_AbsentKeyNoEffect ==
    [][\A c \in Callers :
          CallsAtOnce(c) =>
             /\ (call'[c].op \in {"disconnect", "get", "token"} /\ call'[c].conn = NoRow) =>
                   /\ store' = store
                   /\ issued' = issued
                   /\ call'[c].exchanges = 0
                   /\ call'[c].outcome =
                         IF call'[c].op = "disconnect" THEN Returns([deleted |-> FALSE])
                         ELSE Raises("NotConnected")
             /\ (call'[c].op = "disconnect" /\ call'[c].conn # NoRow) =>
                   /\ store[call'[c].key] # NoRow
                   /\ store' = [store EXCEPT ![call'[c].key] = NoRow]
                   /\ call'[c].outcome = Returns([deleted |-> TRUE])]_vars

C21_Witness ==
    /\ FoundNothing(1) /\ call[1].op = "disconnect"
    /\ call[1].outcome = Returns([deleted |-> FALSE])
    /\ FoundNothing(2) /\ call[2].op = "token"
    /\ call[2].outcome = Raises("NotConnected")
    /\ \E k \in Keys : store[k] # NoRow

\* ------------------------------------------------------ one pair, one record
\* Caller c takes a step of its call.
Acts(c) == cpc'[c] # cpc[c] \/ call'[c] # call[c]

\* C22: a step of an operation for pair P leaves the record of every other
\* pair Q as it is, whatever other requests are under way.
C22_OtherPairsUntouched ==
    [][\A c \in Callers :
          Acts(c) => \A q \in Keys : q # call'[c].key => store'[q] = store[q]]_vars

C22_Witness ==
    /\ \A c \in Callers : cpc[c] = "done" /\ call[c].writes = 1
    /\ call[1].op = "token" /\ call[2].op = "disconnect"
    /\ call[1].key # call[2].key
    /\ store[call[1].key].access_token_enc = Encrypt(AccessToken(1))

\* ------------------------------------------------------------ the body replayed
\* Request r was handed to downstream handling on one of the two transport
\* endpoints.
ForwardedProtected(r) ==
    req[r] # NoReq /\ req[r].http /\ Protected(Path(req[r])) /\ down[r].n > 0

\* The positions at which downstream got a final chunk with no disconnect
\* before it: there it has the whole body.
FinalChunks(r) ==
    {i \in 1..Len(received[r]) :
        /\ \A j \in 1..i : received[r][j].type = "http.request"
        /\ ~received[r][i].more_body
        /\ \A j \in 1..(i - 1) : received[r][j].more_body}

\* The bytes downstream got up to its final chunk.
DownstreamBody(r) ==
    LET last == CHOOSE i \in FinalChunks(r) : TRUE
    IN Concat([i \in 1..last |-> received[r][i].body])

\* The number of messages of the wire up to its final chunk.
WholeBody(r) ==
    CHOOSE i \in 1..Len(transport[r].wire) :
        /\ transport[r].wire[i].type = "http.request"
        /\ ~transport[r].wire[i].more_body

\* C23 as stated: for every request forwarded on a protected path, on the
\* public pass-through and after verification alike, the interceptor has read
\* the whole body from the transport, once, and downstream gets the same bytes.
C23_Original ==
    \A r \in Reqs :
        ForwardedProtected(r) =>
            /\ body_buf[r].body = [bytes |-> Bytes(req[r].body)]
            /\ FinalChunks(r) # {} => DownstreamBody(r) = Bytes(req[r].body)

\* C23, amended: on the public pass-through the interceptor has read the whole
\* body from the transport, each message once, and downstream's receive never
\* reaches the transport; after verification the interceptor has read nothing
\* and every receive of downstream is the transport's own; on both paths the
\* bytes downstream has when it gets its final chunk are the bytes sent.
C23_BodyReachesDownstream ==
    \A r \in Reqs :
        ForwardedProtected(r) =>
            /\ down[r].via = "public" =>
                  /\ body_buf[r].body = [bytes |-> Bytes(req[r].body)]
                  /\ transport[r].pos = WholeBody(r)
                  /\ transport[r].calls = WholeBody(r)
            /\ down[r].via = "auth" =>
                  /\ body_buf[r] = NoBuffer
                  /\ transport[r].calls = Len(received[r])
            /\ FinalChunks(r) # {} => DownstreamBody(r) = Bytes(req[r].body)

C23_Witness ==
    /\ ForwardedProtected(1) /\ down[1].via = "public"
    /\ Len(transport[1].wire) = 2 /\ Len(transport[1].wire[1].body) = 1
    /\ Len(received[1]) = 2
    /\ DownstreamBody(1) = Bytes(req[1].body)

\* ------------------------------------------------------ the expected audience
\* verify_bearer_token has been called for request r.
VerifyCalled(r) == pc[r] \in {"v_fetch", "v_ret"} \/ vres[r].kind # "none"

\* The request carries both forwarded headers.
Forwarded(r) == req[r].xf_host \notin {None, << >>} /\ req[r].xf_proto \notin {None, << >>}

\* C24 as stated: the expected audience is the base URL plus /mcp, the base
\* URL being that of the forwarded headers when the request has them and the
\* configured override only when it has not.
C24_Original ==
    \A r \in Reqs :
        VerifyCalled(r) =>
            /\ Forwarded(r) =>
                  aud[r] = req[r].xf_proto \o <<"://">> \o req[r].xf_host \o <<"/", "mcp">>
            /\ (~Forwarded(r) /\ env.base \notin {None, << >>}) =>
                  aud[r] = RStrip(env.base) \o <<"/", "mcp">>

\* C24, amended: a configured resource is the expected audience as it stands;
\* without one it is the base URL plus /mcp, the base URL being the configured
\* override (less its trailing separators) when there is one and that of the
\* forwarded headers only otherwise, with the scope's scheme and the Host
\* header standing in for a missing forwarded header; and none when there is
\* no host at all.
C24_AudienceFromConfigFirst ==
    \A r \in Reqs :
        VerifyCalled(r) =>
            LET cfg == env.resource \notin {None, << >>}
                override == env.base \notin {None, << >>}
            IN /\ cfg => aud[r] = env.resource
               /\ (~cfg /\ override) => aud[r] = RStrip(env.base) \o <<"/", "mcp">>
               /\ (~cfg /\ ~override /\ Forwarded(r)) =>
                     aud[r] = req[r].xf_proto \o <<"://">> \o req[r].xf_host \o <<"/", "mcp">>
               /\ (~cfg /\ ~override /\ ~Forwarded(r) /\ req[r].host \notin {None, << >>}) =>
                     aud[r] = req[r].scheme \o <<"://">> \o req[r].host \o <<"/", "mcp">>
               /\ (~cfg /\ ~override /\ ~Forwarded(r) /\ req[r].host \in {None, << >>}) =>
                     aud[r] = None

C24_Witness ==
    /\ VerifyCalled(1) /\ Forwarded(1)
    /\ env.resource = None /\ env.base = HostH \o <<"/">>
    /\ aud[1] = HostH \o McpSuffix
    /\ aud[1] # req[1].xf_proto \o <<"://">> \o req[1].xf_host \o McpSuffix

\* ------------------------------------------------------- the connect callback
\* Caller c is in, or has left, a connect callback whose authorization-code
\* exchange succeeded.
Exchanged(c) == call[c].op = "connect" /\ call[c].token_resp # Null

\* The last commit on the key of c's call is c's.
LastCommitBy(c) ==
    /\ cpc[c] = "done" /\ call[c].writes = 1
    /\ hist[call[c].key].commit # Null /\ hist[call[c].key].commit.by = c

\* C25: a connect callback whose exchange succeeded goes on to the upsert with
\* the new tokens and their expiry whether its company-name lookup succeeded or
\* failed, and is never ended by the lookup; after a failed lookup the row it
\* commits has no name when the key is new and the name it had otherwise; a
\* callback whose exchange failed writes nothing.
C25_LookupFailureTolerated ==
    \A c \in Callers :
        /\ Exchanged(c) =>
              /\ cpc[c] \in {"upsert", "commit", "done"}
              /\ call[c].outcome.kind = "error" =>
                    call[c].outcome.what \in {"IntegrityError", "StaleDataError"}
              /\ call[c].args.access_token_enc.cipher = call[c].token_resp.access_token
              /\ call[c].args.refresh_token_enc.cipher = call[c].token_resp.refresh_token
              /\ call[c].args.access_token_expires_at.t =
                    call[c].exchanged_at +
                       (IF call[c].token_resp.expires_in = Null THEN 3600
                        ELSE call[c].token_resp.expires_in.seconds)
              /\ ~call[c].lookup.ok => call[c].args.company_name = None
              /\ LastCommitBy(c) =>
                    LET row == store[call[c].key]
                        before == hist[call[c].key].before
                    IN /\ row.access_token_enc = call[c].args.access_token_enc
                       /\ row.refresh_token_enc = call[c].args.refresh_token_enc
                       /\ row.access_token_expires_at.t = call[c].args.access_token_expires_at.t
                       /\ ~call[c].lookup.ok =>
                             row.company_name =
                                IF before = NoRow THEN None ELSE before.company_name
        /\ (call[c].op = "connect" /\ cpc[c] = "done" /\ ~Exchanged(c)) =>
              /\ call[c].writes = 0
              /\ call[c].args = Null
              /\ hist[call[c].key].commit # Null => hist[call[c].key].commit.by # c

C25_Witness ==
    /\ Exchanged(1) /\ ~call[1].lookup.ok /\ LastCommitBy(1)
    /\ hist[call[1].key].before # NoRow
    /\ store[call[1].key].company_name = <<"Old">>
    /\ store[call[1].key].access_token_enc = Encrypt(AccessToken(1))
    /\ call[2].op = "connect" /\ cpc[2] = "done" /\ ~Exchanged(2)

\* ------------------------------------------------------- the default company
\* The keys under which `user_id` has a credential.
CredentialsOf(user_id) == {k \in DOMAIN store : k[1] = user_id /\ store[k] # NoRow}

C27_ToggleOffAlwaysAuth ==
    \A r \in Reqs :
        (OnUnary(r) /\ ~env.allow_public) =>
            /\ decision[r] = "protected"
            /\ buf[r] = NoBody
            /\ Invoked(r) => (Verified(r) /\ down[r].via = "auth" /\ down[r].n = 1)
            /\ \A i \in 1..Len(Answers(r)) : Answers(r)[i].status \in {401, 500}
            /\ (Done(r) /\ ~Verified(r)) => (~Invoked(r) /\ Len(Answers(r)) = 1)

C27_Witness ==
    /\ Done(1) /\ OnUnary(1) /\ ~env.allow_public /\ ~req[1].auth.present
    /\ req[1].method = "POST" /\ req[1].body = Obj(M_init)
    /\ ~Invoked(1) /\ Answers(1)[1].status = 401

\* ------------------------------------------------------------- one outcome
\* C28 as stated: every HTTP request is either forwarded downstream exactly once
\* with no response of the interceptor, or answered by the interceptor exactly
\* once with downstream never invoked; no request is both forwarded and
\* answered, or verified after it was forwarded, also when downstream raises.
C28_ExactlyOneOutcome ==
    \A r \in Reqs :
        (Arrived(r) /\ req[r].http) =>
            /\ ~(Invoked(r) /\ Len(Answers(r)) > 0)
            /\ down[r].n <= 1 /\ Len(Answers(r)) <= 1
            /\ (Invoked(r) /\ down[r].via = "public") => (vres[r] = NoResult /\ pc[r] # "v_call")
            /\ Done(r) => (down[r].n = 1 /\ Answers(r) = << >>) \/
                          (down[r].n = 0 /\ Len(Answers(r)) = 1)

\* ------------------------------------------------------- buffering terminates
\* C29 as stated: whatever the transport delivers, body chunks followed or
\* interrupted by a client disconnect, a body() that was called eventually
\* returns, and the request is classified.
C29_BodyTerminates == (pc[1] = "read") ~> (pc[1] # "read" /\ decision[1] # "reading")

\* ------------------------------------------- discovery matches enforcement
\* The resource advertised for the configuration and the headers of request r.
Advertised(r) == oauth_protected_resource(env, req[r]).resource

\* The expected audience passed to the verifier for r equals the advertised
\* resource up to trailing separators.
AudienceAsAdvertised(r) == VerifyCalled(r) => RStrip(aud[r]) = RStrip(Advertised(r))

\* The metadata URL of every 401 sent for r and the advertised resource are one
\* base URL followed by the well-known path and by /mcp.
ChallengeOnSameBase(r) ==
    \A i \in 1..Len(Answers(r)) :
        Answers(r)[i].status = 401 =>
            LET url == Answers(r)[i].www.resource_metadata
            IN \E n \in 0..Len(url) :
                  /\ url = SubSeq(url, 1, n) \o <<"/", ".well-known", "/", "oauth-protected-resource">>
                  /\ RStrip(Advertised(r)) = SubSeq(url, 1, n) \o <<"/", "mcp">>

\* C30 as stated: for one configuration and one set of request headers, the
\* advertised resource equals the expected audience up to trailing separators,
\* and the metadata URL of the 401 challenge has the base URL of that resource.
C30_DiscoveryMatchesEnforcement ==
    \A r \in Reqs :
        (Arrived(r) /\ req[r].http) => (AudienceAsAdvertised(r) /\ ChallengeOnSameBase(r))

====
